---- MODULE Spec2Model ----
(***************************************************************************)
(* Text-block pipeline of the PDF to PPTX converter: text cleanup,         *)
(* reading-order sort, region grouping, overlap merging, unit conversion,  *)
(* coordinate transform and the per-page conversion loop.                  *)
(*                                                                         *)
(* A text is a sequence of one-character strings.  A block is a record     *)
(* [x0, y0, x1, y1, text].  Point values that the code holds in floats are *)
(* modelled in exact arithmetic.                                           *)
(***************************************************************************)
EXTENDS Integers, Sequences, FiniteSets, TLC

VARIABLES
    pc,               \* position of the running call: "call", "return", or a pipeline label
    args,             \* the arguments of the running call (a record named after the parameters)
    result,           \* the value returned (NoResult before the return)
    page_num,         \* _pdf_to_pptx_with_ocr: index of the next page to process
    all_page_blocks   \* _pdf_to_pptx_with_ocr: transformed blocks of the pages done so far

vars == <<pc, args, result, page_num, all_page_blocks>>

NoResult == [fn |-> "none"]

(***************************************************************************)
(* Bounds of the model.                                                    *)
(***************************************************************************)
MaxTextLen == 5

MaxBlocks == 3

MaxPages == 2

MaxPointsNum == 300

(***************************************************************************)
(* Characters.                                                             *)
(***************************************************************************)
LowerLetters ==
    {"a", "b", "c", "d", "e", "f", "g", "h", "i", "j", "k", "l", "m",
     "n", "o", "p", "q", "r", "s", "t", "u", "v", "w", "x", "y", "z"}

UpperLetters ==
    {"A", "B", "C", "D", "E", "F", "G", "H", "I", "J", "K", "L", "M",
     "N", "O", "P", "Q", "R", "S", "T", "U", "V", "W", "X", "Y", "Z"}

\* [a-zA-Z]
IsLetter(c) == c \in LowerLetters \cup UpperLetters

\* [ \t]
SpaceTab == {" ", "\t"}

IsSpaceTab(c) == c \in SpaceTab

\* \s, and the characters str.strip() removes
Whitespace == {" ", "\t", "\n"}

IsWhitespace(c) == c \in Whitespace

Newline == {"\n"}

SetMin(S) == CHOOSE x \in S : \A y \in S : x <= y

SetMax(S) == CHOOSE x \in S : \A y \in S : x >= y

\* End of the maximal run of characters of class that starts at p of t: the first
\* position q >= p with t[q] outside class, Len(t)+1 when the run reaches the end.
RunEnd(t, p, class) ==
    SetMin({q \in p..(Len(t) + 1) : q = Len(t) + 1 \/ t[q] \notin class})

(***************************************************************************)
(* Exact arithmetic for the values the code holds in floats.  A real is a  *)
(* record [w, n, d] standing for w + n/d with 0 <= n < d, in lowest terms. *)
(* Every intermediate value stays below 2^31.                              *)
(***************************************************************************)
RECURSIVE Gcd(_, _)
Gcd(a, b) == IF b = 0 THEN a ELSE Gcd(b, a % b)

RMake(w, n, d) ==
    LET g == Gcd(d, n)
    IN  [w |-> w, n |-> n \div g, d |-> d \div g]

RInt(k) == [w |-> k, n |-> 0, d |-> 1]

\* a / b for integers a and b > 0
RFrac(a, b) == RMake(a \div b, a % b, b)

RNeg(p) == IF p.n = 0 THEN RInt(-p.w) ELSE [w |-> -p.w - 1, n |-> p.d - p.n, d |-> p.d]

RAdd(p, q) ==
    LET g == Gcd(p.d, q.d)
        l == (p.d \div g) * q.d
        s == p.n * (l \div p.d) + q.n * (l \div q.d)
    IN  RMake(p.w + q.w + s \div l, s % l, l)

RSub(p, q) == RAdd(p, RNeg(q))

RLe(p, q) ==
    \/ p.w < q.w
    \/ p.w = q.w /\ LET g == Gcd(p.d, q.d)
                    IN  p.n * (q.d \div g) <= q.n * (p.d \div g)

RLt(p, q) == ~RLe(q, p)

RMin(p, q) == IF RLe(p, q) THEN p ELSE q

RMax(p, q) == IF RLe(q, p) THEN p ELSE q

RAbs(p) == IF p.w < 0 THEN RNeg(p) ELSE p

\* <<q, r>> with n * k = q * d + r and 0 <= r < d, for 0 <= n < d and k >= 0
RECURSIVE MulDiv(_, _, _)
MulDiv(n, k, d) ==
    IF k = 0 \/ n = 0 THEN <<0, 0>>
    ELSE LET h == MulDiv(n, k \div 2, d)
             r == 2 * h[2] + (IF k % 2 = 1 THEN n ELSE 0)
         IN  <<2 * h[1] + r \div d, r % d>>

\* p * k for an integer k
RMulInt(p, k) ==
    IF k < 0 THEN RNeg(LET m == MulDiv(p.n, -k, p.d) IN RMake(p.w * (-k) + m[1], m[2], p.d))
    ELSE LET m == MulDiv(p.n, k, p.d) IN RMake(p.w * k + m[1], m[2], p.d)

\* p / k for an integer k > 0
RDivInt(p, k) == RMake(p.w \div k, (p.w % k) * p.d + p.n, p.d * k)

\* p * q for a real q >= 0
RMul(p, q) == RAdd(RMulInt(p, q.w), RDivInt(RMulInt(p, q.n), q.d))

\* Python int(): truncation toward zero
RTrunc(p) == IF p.w >= 0 \/ p.n = 0 THEN p.w ELSE p.w + 1

(***************************************************************************)
(* str.strip()                                                             *)
(***************************************************************************)
RECURSIVE lstrip(_)
lstrip(t) ==
    IF t = <<>> THEN <<>>
    ELSE IF IsWhitespace(Head(t)) THEN lstrip(Tail(t))
    ELSE t

RECURSIVE rstrip(_)
rstrip(t) ==
    IF t = <<>> THEN <<>>
    ELSE IF IsWhitespace(t[Len(t)]) THEN rstrip(SubSeq(t, 1, Len(t) - 1))
    ELSE t

strip(t) == rstrip(lstrip(t))

(***************************************************************************)
(* _dehyphenate_text: re.sub(r'([a-zA-Z])-\s*\n\s*([a-zA-Z])', r'\1\2').   *)
(* re.sub scans left to right and replaces non-overlapping matches: after  *)
(* a match the scan resumes behind the second letter.  A match at p needs  *)
(* the whole whitespace run behind the hyphen to hold a newline and to be  *)
(* followed by a letter.                                                   *)
(***************************************************************************)
HyphenMatchAt(t, p) ==
    /\ IsLetter(t[p])
    /\ p + 1 <= Len(t)
    /\ t[p + 1] = "-"
    /\ LET q == RunEnd(t, p + 2, Whitespace)
       IN  /\ \E k \in (p + 2)..(q - 1) : t[k] = "\n"
           /\ q <= Len(t)
           /\ IsLetter(t[q])

RECURSIVE HyphenSub(_, _)
HyphenSub(t, p) ==
    IF p > Len(t) THEN <<>>
    ELSE IF HyphenMatchAt(t, p)
         THEN LET q == RunEnd(t, p + 2, Whitespace)
              IN  <<t[p], t[q]>> \o HyphenSub(t, q + 1)
         ELSE <<t[p]>> \o HyphenSub(t, p + 1)

\* Mutant of _dehyphenate_text: the hyphen pattern without the line break,
\* r'([a-zA-Z])-\s*([a-zA-Z])'.
RECURSIVE HyphenSubNoNewline(_, _)
HyphenSubNoNewline(t, p) ==
    IF p > Len(t) THEN <<>>
    ELSE LET q == IF p + 1 <= Len(t) THEN RunEnd(t, p + 2, Whitespace) ELSE p
         IN  IF /\ IsLetter(t[p])
                /\ p + 1 <= Len(t)
                /\ t[p + 1] = "-"
                /\ q <= Len(t)
                /\ IsLetter(t[q])
             THEN <<t[p], t[q]>> \o HyphenSubNoNewline(t, q + 1)
             ELSE <<t[p]>> \o HyphenSubNoNewline(t, p + 1)

Mutant_dehyphenate_no_newline(t) == HyphenSubNoNewline(t, 1)

_dehyphenate_text(t) == HyphenSub(t, 1)

(***************************************************************************)
(* _normalize_text                                                         *)
(***************************************************************************)
\* re.sub(r'[ \t]+', ' ', text)
RECURSIVE SubSpaceTabRuns(_, _)
SubSpaceTabRuns(t, p) ==
    IF p > Len(t) THEN <<>>
    ELSE IF IsSpaceTab(t[p])
         THEN <<" ">> \o SubSpaceTabRuns(t, RunEnd(t, p, SpaceTab))
         ELSE <<t[p]>> \o SubSpaceTabRuns(t, p + 1)

\* re.sub(r'\n[ \t]+', '\n', text)
RECURSIVE SubSpaceAfterNewline(_, _)
SubSpaceAfterNewline(t, p) ==
    IF p > Len(t) THEN <<>>
    ELSE IF t[p] = "\n"
         THEN <<"\n">> \o SubSpaceAfterNewline(t, RunEnd(t, p + 1, SpaceTab))
         ELSE <<t[p]>> \o SubSpaceAfterNewline(t, p + 1)

\* re.sub(r'[ \t]+\n', '\n', text)
RECURSIVE SubSpaceBeforeNewline(_, _)
SubSpaceBeforeNewline(t, p) ==
    IF p > Len(t) THEN <<>>
    ELSE LET q == RunEnd(t, p, SpaceTab)
         IN  IF IsSpaceTab(t[p]) /\ q <= Len(t) /\ t[q] = "\n"
             THEN <<"\n">> \o SubSpaceBeforeNewline(t, q + 1)
             ELSE <<t[p]>> \o SubSpaceBeforeNewline(t, p + 1)

\* re.sub(r'\n{3,}', '\n\n', text)
RECURSIVE SubNewlineRuns(_, _)
SubNewlineRuns(t, p) ==
    IF p > Len(t) THEN <<>>
    ELSE LET q == RunEnd(t, p, Newline)
         IN  IF q - p >= 3
             THEN <<"\n", "\n">> \o SubNewlineRuns(t, q)
             ELSE <<t[p]>> \o SubNewlineRuns(t, p + 1)

\* Mutant of CleanWhitespace: blanks in front of a newline are left in the text.
Mutant_CleanWhitespace_keep_trailing(t) ==
    SubNewlineRuns(SubSpaceAfterNewline(SubSpaceTabRuns(t, 1), 1), 1)

CleanWhitespace(t) ==
    SubNewlineRuns(
        SubSpaceBeforeNewline(
            SubSpaceAfterNewline(
                SubSpaceTabRuns(t, 1), 1), 1), 1)

_normalize_text(t, dehyphenate) ==
    IF t = <<>> THEN <<>>
    ELSE LET cleaned == CleanWhitespace(t)
         IN  strip(IF dehyphenate THEN _dehyphenate_text(cleaned) ELSE cleaned)

(***************************************************************************)
(* models.py: constants and unit conversion                                *)
(***************************************************************************)
PDF_POINTS_PER_INCH == 72

PPTX_EMU_PER_INCH == 914400

MINIMUM_TEXT_THRESHOLD == 20

\* Mutant of pdf_points_to_emu: round() in place of int().
Mutant_pdf_points_to_emu_round(points) ==
    LET v == RDivInt(RMulInt(points, PPTX_EMU_PER_INCH), PDF_POINTS_PER_INCH)
    IN  IF 2 * v.n >= v.d THEN v.w + 1 ELSE v.w

\* Mutant of pdf_points_to_emu: converts with 91440 EMU per inch.
Mutant_pdf_points_to_emu_ratio(points) ==
    RTrunc(RDivInt(RMulInt(points, 91440), PDF_POINTS_PER_INCH))

\* int(points * PPTX_EMU_PER_INCH / PDF_POINTS_PER_INCH)
pdf_points_to_emu(points) ==
    RTrunc(RDivInt(RMulInt(points, PPTX_EMU_PER_INCH), PDF_POINTS_PER_INCH))

\* emu * PDF_POINTS_PER_INCH / PPTX_EMU_PER_INCH
emu_to_pdf_points(emu) ==
    RDivInt(RInt(emu * PDF_POINTS_PER_INCH), PPTX_EMU_PER_INCH)

(***************************************************************************)
(* Blocks: (x0, y0, x1, y1, text)                                          *)
(***************************************************************************)
Block(x0, y0, x1, y1, text) ==
    [x0 |-> x0, y0 |-> y0, x1 |-> x1, y1 |-> y1, text |-> text]

\* The text of the block at position i of an input list: one letter per position,
\* so that the blocks of a list can be told apart.
Tag(i) == <<<<"p", "q", "r", "s", "t", "u">>[i]>>

(***************************************************************************)
(* has_sufficient_text                                                     *)
(***************************************************************************)
\* sum(len(block[4].strip()) for block in text_blocks)
RECURSIVE total_chars(_)
total_chars(text_blocks) ==
    IF text_blocks = <<>> THEN 0
    ELSE Len(strip(Head(text_blocks).text)) + total_chars(Tail(text_blocks))

\* Mutant of has_sufficient_text: > in place of >=.
Mutant_has_sufficient_text_strict(text_blocks) ==
    total_chars(text_blocks) > MINIMUM_TEXT_THRESHOLD

has_sufficient_text(text_blocks) ==
    total_chars(text_blocks) >= MINIMUM_TEXT_THRESHOLD

(***************************************************************************)
(* _sort_by_reading_order: sorted(text_blocks, key=(y0, x0)), a stable     *)
(* sort.                                                                   *)
(***************************************************************************)
\* Mutant of SortKeyLe: the key is (x0, y0).
Mutant_SortKeyLe_swapped(a, b) == a.x0 < b.x0 \/ (a.x0 = b.x0 /\ a.y0 <= b.y0)

\* sort_key(a) <= sort_key(b)
SortKeyLe(a, b) == a.y0 < b.y0 \/ (a.y0 = b.y0 /\ a.x0 <= b.x0)

\* b put behind every block of the sorted list s whose key is not above b's
RECURSIVE SortedInsert(_, _)
SortedInsert(s, b) ==
    IF s = <<>> THEN <<b>>
    ELSE IF SortKeyLe(Head(s), b) THEN <<Head(s)>> \o SortedInsert(Tail(s), b)
    ELSE <<b>> \o s

RECURSIVE StableSort(_)
StableSort(s) ==
    IF s = <<>> THEN <<>>
    ELSE SortedInsert(StableSort(SubSeq(s, 1, Len(s) - 1)), s[Len(s)])

_sort_by_reading_order(text_blocks) ==
    IF text_blocks = <<>> THEN <<>> ELSE StableSort(text_blocks)

(***************************************************************************)
(* _combine_content_text                                                   *)
(***************************************************************************)
\* str.isupper() of one character
IsUpper(c) == c \in UpperLetters

\* The three characters of the literal that piece.startswith() is given for the
\* bullet (the source file holds the bullet's UTF-8 bytes decoded as cp1252).
BulletLiteral == <<"a-circumflex", "euro", "cent">>

StartsWith(t, prefix) ==
    Len(t) >= Len(prefix) /\ SubSeq(t, 1, Len(prefix)) = prefix

EndsWith(t, c) == t # <<>> /\ t[Len(t)] = c

\* The test between two pieces: paragraph break or single space.
ParagraphBreak(last_piece, piece) ==
    \/ IsUpper(piece[1]) /\ EndsWith(last_piece, ".")
    \/ Len(piece) > 50
    \/ StartsWith(piece, BulletLiteral)
    \/ StartsWith(piece, <<"-">>)

\* Mutant of CombineLoop: a piece behind a piece that ends in a hyphen is joined to
\* it without the hyphen.
RECURSIVE Mutant_CombineLoop_dehyphenated(_, _)
Mutant_CombineLoop_dehyphenated(text_pieces, combined) ==
    IF text_pieces = <<>> THEN combined
    ELSE LET piece == strip(Head(text_pieces))
             rest == Tail(text_pieces)
             last == IF combined = <<>> THEN <<>> ELSE combined[Len(combined)]
         IN  IF piece = <<>> THEN Mutant_CombineLoop_dehyphenated(rest, combined)
             ELSE IF combined = <<>> THEN Mutant_CombineLoop_dehyphenated(rest, <<piece>>)
             ELSE IF EndsWith(last, "-")
                  THEN Mutant_CombineLoop_dehyphenated(
                           rest,
                           SubSeq(combined, 1, Len(combined) - 1)
                               \o <<SubSeq(last, 1, Len(last) - 1) \o piece>>)
             ELSE IF ParagraphBreak(last, piece)
                  THEN Mutant_CombineLoop_dehyphenated(
                           rest, Append(combined, <<"\n", "\n">> \o piece))
                  ELSE Mutant_CombineLoop_dehyphenated(rest, Append(combined, <<" ">> \o piece))

\* The loop over text_pieces; combined is the list built so far.
RECURSIVE CombineLoop(_, _)
CombineLoop(text_pieces, combined) ==
    IF text_pieces = <<>> THEN combined
    ELSE LET piece == strip(Head(text_pieces))
             rest == Tail(text_pieces)
         IN  IF piece = <<>> THEN CombineLoop(rest, combined)
             ELSE IF combined = <<>> THEN CombineLoop(rest, <<piece>>)
             ELSE IF ParagraphBreak(combined[Len(combined)], piece)
                  THEN CombineLoop(rest, Append(combined, <<"\n", "\n">> \o piece))
                  ELSE CombineLoop(rest, Append(combined, <<" ">> \o piece))

\* ''.join(combined)
RECURSIVE Join(_)
Join(parts) == IF parts = <<>> THEN <<>> ELSE Head(parts) \o Join(Tail(parts))

_combine_content_text(text_pieces) ==
    IF text_pieces = <<>> THEN <<>> ELSE Join(CombineLoop(text_pieces, <<>>))

(***************************************************************************)
(* _group_into_content_blocks                                              *)
(***************************************************************************)
region_tolerance == 50

Abs(v) == IF v < 0 THEN -v ELSE v

Min2(a, b) == IF a <= b THEN a ELSE b

Max2(a, b) == IF a >= b THEN a ELSE b

NoRegion == <<>>

\* content_blocks with the current region flushed into it
Flush(content_blocks, current_content, region) ==
    LET combined_text == _combine_content_text(current_content)
    IN  IF current_content # <<>> /\ strip(combined_text) # <<>>
        THEN Append(content_blocks, Block(50, region[1], 700, region[2], combined_text))
        ELSE content_blocks

\* Mutant of InRegion: the block must be near the top and near the bottom.
Mutant_InRegion_both(region, y0, y1) ==
    /\ Abs(y0 - region[1]) <= region_tolerance
    /\ Abs(y1 - region[2]) <= region_tolerance

\* Whether a block at (y0, y1) belongs to the region.
InRegion(region, y0, y1) ==
    \/ Abs(y0 - region[1]) <= region_tolerance
    \/ Abs(y1 - region[2]) <= region_tolerance

\* The loop over the sorted blocks.
RECURSIVE GroupLoop(_, _, _, _)
GroupLoop(text_blocks, content_blocks, current_content, current_y_region) ==
    IF text_blocks = <<>>
    THEN IF current_content # <<>> /\ current_y_region # NoRegion
         THEN Flush(content_blocks, current_content, current_y_region)
         ELSE content_blocks
    ELSE LET b == Head(text_blocks)
             text == strip(b.text)
             rest == Tail(text_blocks)
         IN  IF text = <<>>
             THEN GroupLoop(rest, content_blocks, current_content, current_y_region)
             ELSE IF current_y_region = NoRegion
             THEN GroupLoop(rest, content_blocks, <<text>>, <<b.y0, b.y1>>)
             ELSE IF InRegion(current_y_region, b.y0, b.y1)
             THEN GroupLoop(rest, content_blocks, Append(current_content, text),
                            <<Min2(current_y_region[1], b.y0),
                              Max2(current_y_region[2], b.y1)>>)
             ELSE GroupLoop(rest,
                            Flush(content_blocks, current_content, current_y_region),
                            <<text>>, <<b.y0, b.y1>>)

_group_into_content_blocks(text_blocks) ==
    IF text_blocks = <<>> THEN <<>> ELSE GroupLoop(text_blocks, <<>>, <<>>, NoRegion)

(***************************************************************************)
(* normalize_and_group_text_blocks                                         *)
(***************************************************************************)
\* The first loop: texts cleaned, blocks with an empty text left out.
RECURSIVE normalized_blocks(_, _)
normalized_blocks(text_blocks, dehyphenate) ==
    IF text_blocks = <<>> THEN <<>>
    ELSE LET b == Head(text_blocks)
             cleaned_text == _normalize_text(b.text, dehyphenate)
             rest == normalized_blocks(Tail(text_blocks), dehyphenate)
         IN  IF strip(cleaned_text) # <<>>
             THEN <<[b EXCEPT !.text = cleaned_text]>> \o rest
             ELSE rest

normalize_and_group_text_blocks(text_blocks, dehyphenate) ==
    IF text_blocks = <<>> THEN <<>>
    ELSE _group_into_content_blocks(
             _sort_by_reading_order(normalized_blocks(text_blocks, dehyphenate)))

(***************************************************************************)
(* merge_overlapping_blocks.  A threshold is a fraction [num, den].        *)
(***************************************************************************)
\* Mutant of _blocks_overlap: the ratio is taken over the larger area.
Mutant_blocks_overlap_larger_area(block1, block2, threshold) ==
    LET x_overlap == Max2(0, Min2(block1.x1, block2.x1) - Max2(block1.x0, block2.x0))
        y_overlap == Max2(0, Min2(block1.y1, block2.y1) - Max2(block1.y0, block2.y0))
        overlap_area == x_overlap * y_overlap
        area1 == (block1.x1 - block1.x0) * (block1.y1 - block1.y0)
        area2 == (block2.x1 - block2.x0) * (block2.y1 - block2.y0)
        max_area == Max2(area1, area2)
    IN  IF x_overlap = 0 \/ y_overlap = 0 THEN FALSE
        ELSE IF max_area = 0 THEN FALSE
        ELSE overlap_area * threshold.den >= threshold.num * max_area

_blocks_overlap(block1, block2, threshold) ==
    LET x_overlap == Max2(0, Min2(block1.x1, block2.x1) - Max2(block1.x0, block2.x0))
        y_overlap == Max2(0, Min2(block1.y1, block2.y1) - Max2(block1.y0, block2.y0))
        overlap_area == x_overlap * y_overlap
        area1 == (block1.x1 - block1.x0) * (block1.y1 - block1.y0)
        area2 == (block2.x1 - block2.x0) * (block2.y1 - block2.y0)
        min_area == Min2(area1, area2)
    IN  IF x_overlap = 0 \/ y_overlap = 0 THEN FALSE
        ELSE IF min_area = 0 THEN FALSE
        ELSE IF min_area > 0
             THEN overlap_area * threshold.den >= threshold.num * min_area
             ELSE overlap_area * threshold.den <= threshold.num * min_area

\* Mutant of _merge_two_blocks: on equal top edges the later block's text is first.
Mutant_merge_two_blocks_tie(block1, block2) ==
    Block(Min2(block1.x0, block2.x0), Min2(block1.y0, block2.y0),
          Max2(block1.x1, block2.x1), Max2(block1.y1, block2.y1),
          IF block1.y0 < block2.y0
          THEN block1.text \o <<"\n">> \o block2.text
          ELSE block2.text \o <<"\n">> \o block1.text)

_merge_two_blocks(block1, block2) ==
    Block(Min2(block1.x0, block2.x0), Min2(block1.y0, block2.y0),
          Max2(block1.x1, block2.x1), Max2(block1.y1, block2.y1),
          IF block1.y0 <= block2.y0
          THEN block1.text \o <<"\n">> \o block2.text
          ELSE block2.text \o <<"\n">> \o block1.text)

\* The inner loop, over the blocks j behind i.
RECURSIVE MergeInner(_, _, _, _, _, _)
MergeInner(text_blocks, overlap_threshold, used_indices, j, current_block, merged_with) ==
    IF j > Len(text_blocks)
    THEN [current_block |-> current_block, merged_with |-> merged_with]
    ELSE IF j \in used_indices
    THEN MergeInner(text_blocks, overlap_threshold, used_indices, j + 1,
                    current_block, merged_with)
    ELSE IF _blocks_overlap(current_block, text_blocks[j], overlap_threshold)
    THEN MergeInner(text_blocks, overlap_threshold, used_indices, j + 1,
                    _merge_two_blocks(current_block, text_blocks[j]),
                    merged_with \cup {j})
    ELSE MergeInner(text_blocks, overlap_threshold, used_indices, j + 1,
                    current_block, merged_with)

\* The outer loop, over the blocks i.
RECURSIVE MergeOuter(_, _, _, _, _)
MergeOuter(text_blocks, overlap_threshold, i, used_indices, merged_blocks) ==
    IF i > Len(text_blocks) THEN merged_blocks
    ELSE IF i \in used_indices
    THEN MergeOuter(text_blocks, overlap_threshold, i + 1, used_indices, merged_blocks)
    ELSE LET r == MergeInner(text_blocks, overlap_threshold, used_indices, i + 1,
                             text_blocks[i], {i})
         IN  MergeOuter(text_blocks, overlap_threshold, i + 1,
                        used_indices \cup r.merged_with,
                        Append(merged_blocks, r.current_block))

\* Mutant of merge_overlapping_blocks: the merged blocks are returned in reading
\* order.
Mutant_merge_overlapping_blocks_sorted(text_blocks, overlap_threshold) ==
    IF Len(text_blocks) < 2 THEN text_blocks
    ELSE StableSort(MergeOuter(text_blocks, overlap_threshold, 1, {}, <<>>))

merge_overlapping_blocks(text_blocks, overlap_threshold) ==
    IF Len(text_blocks) < 2 THEN text_blocks
    ELSE MergeOuter(text_blocks, overlap_threshold, 1, {}, <<>>)

(***************************************************************************)
(* layout.py: ensure_minimum_dimensions                                    *)
(***************************************************************************)
min_width_emu == 45720

min_height_emu == 18288

\* Mutant of EnsureMinimumBlock: a block below the minimum is grown by the
\* minimum instead of to the minimum.
Mutant_EnsureMinimumBlock_grow(b) ==
    [b EXCEPT !.x1 = IF b.x1 - b.x0 < min_width_emu THEN b.x1 + min_width_emu ELSE @,
              !.y1 = IF b.y1 - b.y0 < min_height_emu THEN b.y1 + min_height_emu ELSE @]

\* The body of the loop over the blocks.
EnsureMinimumBlock(b) ==
    [b EXCEPT !.x1 = IF b.x1 - b.x0 < min_width_emu THEN b.x0 + min_width_emu ELSE @,
              !.y1 = IF b.y1 - b.y0 < min_height_emu THEN b.y0 + min_height_emu ELSE @]

ensure_minimum_dimensions(text_blocks) ==
    [i \in 1..Len(text_blocks) |-> EnsureMinimumBlock(text_blocks[i])]

(***************************************************************************)
(* models.py: SlideConfig; pptx_generator.py: calculate_optimal_slide_size *)
(***************************************************************************)
SLIDE_MARGIN_FACTOR == RFrac(2, 100)

SlideConfig(width_emu, height_emu) ==
    [width_emu |-> width_emu, height_emu |-> height_emu,
     margin_factor |-> SLIDE_MARGIN_FACTOR]

\* self.width_emu / PPTX_EMU_PER_INCH * PDF_POINTS_PER_INCH
width_pts(slide_config) ==
    RMulInt(RFrac(slide_config.width_emu, PPTX_EMU_PER_INCH), PDF_POINTS_PER_INCH)

height_pts(slide_config) ==
    RMulInt(RFrac(slide_config.height_emu, PPTX_EMU_PER_INCH), PDF_POINTS_PER_INCH)

\* 13.333 in by 7.5 in, whatever the page measures
calculate_optimal_slide_size(pdf_width, pdf_height) ==
    SlideConfig(RTrunc(RMulInt(RFrac(13333, 1000), 914400)),
                RTrunc(RMulInt(RFrac(75, 10), 914400)))

(***************************************************************************)
(* utils.py: scale_coordinates, apply_margin                               *)
(***************************************************************************)
scale_coordinates(x, y, scale_x, scale_y) == <<RMulInt(scale_x, x), RMulInt(scale_y, y)>>

\* Mutant of apply_margin: the margin is applied without the clamps to the bounds.
Mutant_apply_margin_unclamped(x0, y0, x1, y1, margin_x, margin_y, max_width, max_height) ==
    LET new_x0 == RAdd(x0, margin_x)
        new_y0 == RAdd(y0, margin_y)
        new_x1 == RSub(x1, margin_x)
        new_y1 == RSub(y1, margin_y)
    IN  <<new_x0,
          new_y0,
          IF RLe(new_x1, new_x0) THEN RAdd(new_x0, RInt(50)) ELSE new_x1,
          IF RLe(new_y1, new_y0) THEN RAdd(new_y0, RInt(20)) ELSE new_y1>>

\* <<new_x0, new_y0, new_x1, new_y1>>
apply_margin(x0, y0, x1, y1, margin_x, margin_y, max_width, max_height) ==
    LET new_x0 == RMax(RInt(0), RAdd(x0, margin_x))
        new_y0 == RMax(RInt(0), RAdd(y0, margin_y))
        new_x1 == RMin(max_width, RSub(x1, margin_x))
        new_y1 == RMin(max_height, RSub(y1, margin_y))
    IN  <<new_x0,
          new_y0,
          IF RLe(new_x1, new_x0) THEN RMin(max_width, RAdd(new_x0, RInt(50))) ELSE new_x1,
          IF RLe(new_y1, new_y0) THEN RMin(max_height, RAdd(new_y0, RInt(20))) ELSE new_y1>>

(***************************************************************************)
(* layout.py: transform_blocks_to_pptx.  Page sizes and block coordinates  *)
(* are whole points.                                                       *)
(***************************************************************************)
\* The body of the loop over the blocks.
TransformBlock(b, scale_x, scale_y, margin_x, margin_y, slide_config) ==
    LET scaled0 == scale_coordinates(b.x0, b.y0, scale_x, scale_y)
        scaled1 == scale_coordinates(b.x1, b.y1, scale_x, scale_y)
        final == apply_margin(scaled0[1], scaled0[2], scaled1[1], scaled1[2],
                              margin_x, margin_y,
                              width_pts(slide_config), height_pts(slide_config))
    IN  Block(pdf_points_to_emu(final[1]), pdf_points_to_emu(final[2]),
              pdf_points_to_emu(final[3]), pdf_points_to_emu(final[4]), b.text)

transform_blocks_to_pptx(text_blocks, pdf_width, pdf_height, slide_config) ==
    IF text_blocks = <<>> THEN <<>>
    ELSE LET scale_x == RDivInt(width_pts(slide_config), pdf_width)
             scale_y == RDivInt(height_pts(slide_config), pdf_height)
             margin_x == RMul(width_pts(slide_config), slide_config.margin_factor)
             margin_y == RMul(height_pts(slide_config), slide_config.margin_factor)
         IN  [i \in 1..Len(text_blocks) |->
                 TransformBlock(text_blocks[i], scale_x, scale_y, margin_x, margin_y,
                                slide_config)]

(***************************************************************************)
(* converter.py: _extract_page_text_blocks.  A page is a record            *)
(* [width, height, native, ocr]: its size in points, the blocks PyMuPDF    *)
(* finds on it and the blocks OCR finds on it, each an outcome             *)
(* [raises, blocks].                                                       *)
(***************************************************************************)
Found(blocks) == [raises |-> FALSE, blocks |-> blocks]

Raises == [raises |-> TRUE, blocks |-> <<>>]

\* The extractor raises after it has collected blocks.
RaisesAfter(blocks) == [raises |-> TRUE, blocks |-> blocks]

\* Mutant of extract_text_blocks_pymupdf: the blocks collected before the exception
\* are returned.
Mutant_extract_text_blocks_pymupdf_partial(page) == page.native.blocks

\* try: ... except Exception: return []
extract_text_blocks_pymupdf(page) ==
    IF page.native.raises THEN <<>> ELSE page.native.blocks

_extract_page_text_blocks(page) ==
    LET native_blocks == extract_text_blocks_pymupdf(page)
    IN  IF has_sufficient_text(native_blocks) THEN native_blocks
        ELSE IF page.ocr.raises THEN native_blocks
        ELSE page.ocr.blocks

(***************************************************************************)
(* converter.py: the body of the page loop of _pdf_to_pptx_with_ocr        *)
(***************************************************************************)
transformed_blocks(page, dehyphenate, pdf_width, pdf_height, slide_config) ==
    LET page_blocks == _extract_page_text_blocks(page)
        normalized == normalize_and_group_text_blocks(page_blocks, dehyphenate)
    IN  transform_blocks_to_pptx(normalized, pdf_width, pdf_height, slide_config)

\* Mutant of create_pptx_from_blocks: a page without blocks gets no slide.
Mutant_create_pptx_from_blocks_skip_blank(text_blocks_by_page, slide_config) ==
    LET kept == SelectSeq(text_blocks_by_page, LAMBDA blocks : blocks # <<>>)
    IN  [slides |-> [k \in 1..Len(kept) |-> [page_number |-> k, text_blocks |-> kept[k]]]]

\* pptx_generator.py: create_pptx_from_blocks adds one slide per entry of
\* text_blocks_by_page, built from that entry's blocks.
create_pptx_from_blocks(text_blocks_by_page, slide_config) ==
    [slides |-> [k \in 1..Len(text_blocks_by_page) |->
                    [page_number |-> k, text_blocks |-> text_blocks_by_page[k]]]]

(***************************************************************************)
(* Texts the text functions are called on.                                 *)
(***************************************************************************)
TextAlphabet == {" ", "\t", "\n", "-", "a", "1"}

TextsUpTo(n) == UNION {[1..k -> TextAlphabet] : k \in 0..n}

\* "exam-\nple", "well-known", "a-\nb-\nc", a break followed by a digit, a break
\* with blanks on both sides of the newline, a doubled line break
SampleTexts ==
    { <<"e", "x", "a", "m", "-", "\n", "p", "l", "e">>,
      <<"w", "e", "l", "l", "-", "k", "n", "o", "w", "n">>,
      <<"a", "-", "\n", "b", "-", "\n", "c">>,
      <<"a", "b", "-", "\n", "c", "d", "-", "\n", "e", "f">>,
      <<"a", "-", "\n", "1", "b">>,
      <<"a", "-", " ", "\t", "\n", " ", "b">>,
      <<"a", "-", "\n", "\n", "b", " ">> }

TextInputs == TextsUpTo(MaxTextLen) \cup SampleTexts

InitText ==
    /\ pc = "call"
    /\ args \in [text : TextInputs, dehyphenate : BOOLEAN]
    /\ result = NoResult
    /\ page_num = 0
    /\ all_page_blocks = <<>>

NormalizeText ==
    /\ pc = "call"
    /\ result' = [fn |-> "_normalize_text",
                  value |-> _normalize_text(args.text, args.dehyphenate)]
    /\ pc' = "return"
    /\ UNCHANGED <<args, page_num, all_page_blocks>>

DehyphenateText ==
    /\ pc = "call"
    /\ args.dehyphenate
    /\ result' = [fn |-> "_dehyphenate_text", value |-> _dehyphenate_text(args.text)]
    /\ pc' = "return"
    /\ UNCHANGED <<args, page_num, all_page_blocks>>

NextText == NormalizeText \/ DehyphenateText

SpecText == InitText /\ [][NextText]_vars

(***************************************************************************)
(* Properties of the text functions.                                       *)
(***************************************************************************)
HyphenCount(t) == Cardinality({i \in 1..Len(t) : t[i] = "-"})

\* t holds, from position i on: letter, hyphen, whitespace with a newline, letter
BreakAt(t, i) ==
    /\ i + 3 <= Len(t)
    /\ IsLetter(t[i])
    /\ t[i + 1] = "-"
    /\ \E j \in (i + 3)..Len(t) :
          /\ IsLetter(t[j])
          /\ \A k \in (i + 2)..(j - 1) : IsWhitespace(t[k])
          /\ \E k \in (i + 2)..(j - 1) : t[k] = "\n"

HasBreak(t) == \E i \in 1..Len(t) : BreakAt(t, i)

BreakCount(t) == Cardinality({i \in 1..Len(t) : BreakAt(t, i)})

\* t without the hyphen and the whitespace of its break at i
JoinBreak(t, i) ==
    LET j == SetMin({k \in (i + 3)..Len(t) : IsLetter(t[k])})
    IN  SubSeq(t, 1, i) \o SubSeq(t, j, Len(t))

Returned(fn) == pc = "return" /\ result.fn = fn

\* C4: with dehyphenate=True the rule changes a text exactly when the text holds a
\* letter, a hyphen, whitespace containing a line break and a letter, and a single
\* such break is replaced by its two letters ("exam-\nple" becomes "example");
\* without a line break ("well-known"), with a non-letter behind the break, and
\* with dehyphenate=False, every hyphen stays.
C4_DehyphenationRule ==
    /\ Returned("_dehyphenate_text") =>
          /\ (result.value # args.text) <=> HasBreak(args.text)
          /\ ~HasBreak(args.text) => result.value = args.text
          /\ (BreakCount(args.text) = 1) =>
                \E i \in 1..Len(args.text) :
                    BreakAt(args.text, i) /\ result.value = JoinBreak(args.text, i)
    /\ Returned("_normalize_text") =>
          LET cleaned == strip(CleanWhitespace(args.text))
          IN  /\ ~args.dehyphenate => result.value = cleaned
              /\ ~HasBreak(cleaned) => result.value = cleaned
              /\ ~args.dehyphenate \/ ~HasBreak(cleaned) =>
                    HyphenCount(result.value) = HyphenCount(args.text)
              /\ args.dehyphenate /\ HasBreak(cleaned) =>
                    HyphenCount(result.value) < HyphenCount(args.text)
              /\ args.text = <<"e", "x", "a", "m", "-", "\n", "p", "l", "e">>
                 /\ args.dehyphenate =>
                    result.value = <<"e", "x", "a", "m", "p", "l", "e">>
              /\ args.text = <<"w", "e", "l", "l", "-", "k", "n", "o", "w", "n">> =>
                    result.value = args.text

C4_Witness ==
    /\ Returned("_normalize_text")
    /\ args.dehyphenate
    /\ args.text = <<"e", "x", "a", "m", "-", "\n", "p", "l", "e">>
    /\ result.value = <<"e", "x", "a", "m", "p", "l", "e">>

\* C5: the result of _normalize_text(text, dehyphenate=True) holds no letter,
\* hyphen, whitespace with a newline, letter any more.
C5_NoBreakLeft ==
    Returned("_normalize_text") /\ args.dehyphenate => ~HasBreak(result.value)

(***************************************************************************)
(* Unit conversion calls: points = num / den, negative values included.    *)
(***************************************************************************)
PointsDens == {1, 3, 7, 1000}

EmuInputs == {k * 4572 : k \in 0..MaxPointsNum}

InitUnits ==
    /\ pc = "call"
    /\ \/ \E num \in (-MaxPointsNum)..MaxPointsNum, den \in PointsDens :
             args = [points |-> RFrac(num, den)]
       \/ \E emu \in EmuInputs : args = [emu |-> emu]
    /\ result = NoResult
    /\ page_num = 0
    /\ all_page_blocks = <<>>

PointsToEmu ==
    /\ pc = "call"
    /\ "points" \in DOMAIN args
    /\ result' = [fn |-> "pdf_points_to_emu", value |-> pdf_points_to_emu(args.points)]
    /\ pc' = "return"
    /\ UNCHANGED <<args, page_num, all_page_blocks>>

\* emu_to_pdf_points(pdf_points_to_emu(points))
RoundTrip ==
    /\ pc = "call"
    /\ "points" \in DOMAIN args
    /\ result' = [fn |-> "round_trip",
                  value |-> emu_to_pdf_points(pdf_points_to_emu(args.points))]
    /\ pc' = "return"
    /\ UNCHANGED <<args, page_num, all_page_blocks>>

EmuToPoints ==
    /\ pc = "call"
    /\ "emu" \in DOMAIN args
    /\ result' = [fn |-> "emu_to_pdf_points", value |-> emu_to_pdf_points(args.emu)]
    /\ pc' = "return"
    /\ UNCHANGED <<args, page_num, all_page_blocks>>

NextUnits == PointsToEmu \/ RoundTrip \/ EmuToPoints

SpecUnits == InitUnits /\ [][NextUnits]_vars

\* C7: for every p >= 0 the round trip points -> EMU -> points loses less than
\* 0.01 point.
C7_RoundTrip ==
    Returned("round_trip") /\ RLe(RInt(0), args.points) =>
        RLt(RAbs(RSub(result.value, args.points)), RFrac(1, 100))

\* a round trip that does lose something
C7_Witness ==
    /\ Returned("round_trip")
    /\ RLt(RInt(1), args.points)
    /\ result.value # args.points
    /\ RLt(RAbs(RSub(result.value, args.points)), RFrac(1, 100))

\* C8: pdf_points_to_emu(p) is p * 12700 with the fraction cut off (toward zero,
\* never to the nearest integer); 72 points are 914400 EMU and 914400 EMU are 72
\* points.
C8_Truncation ==
    /\ Returned("pdf_points_to_emu") =>
          LET exact == RMulInt(args.points, 12700)
              e == RInt(result.value)
          IN  /\ RLe(RInt(0), args.points) =>
                    RLe(e, exact) /\ RLt(exact, RInt(result.value + 1))
              /\ RLt(args.points, RInt(0)) =>
                    RLe(exact, e) /\ RLt(RInt(result.value - 1), exact)
              /\ args.points = RInt(72) => result.value = 914400
    /\ Returned("emu_to_pdf_points") /\ args.emu = 914400 => result.value = RInt(72)

\* a value whose fraction is above one half and is cut off all the same
C8_Witness ==
    /\ Returned("pdf_points_to_emu")
    /\ RLe(RInt(0), args.points)
    /\ LET exact == RMulInt(args.points, 12700)
       IN  2 * exact.n > exact.d /\ result.value = exact.w

(***************************************************************************)
(* Calls of has_sufficient_text.  A text is a core of n characters (with a *)
(* blank inside) between leading and trailing whitespace.                  *)
(***************************************************************************)
CoreLens == {0, 1, 9, 10, 19, 20, 21}

PadStyles ==
    { [l |-> <<>>, r |-> <<>>],
      [l |-> <<" ">>, r |-> <<" ", "\n">>],
      [l |-> <<"\t", "\n">>, r |-> <<>>] }

Core(n) == [i \in 1..n |-> IF i = 2 /\ n >= 3 THEN " " ELSE "x"]

SufficiencyBlocks ==
    {Block(0, 0, 100, 20, pad.l \o Core(n) \o pad.r) : n \in CoreLens, pad \in PadStyles}

InitSufficient ==
    /\ pc = "call"
    /\ \E k \in 0..MaxBlocks :
          \E bs \in [1..k -> SufficiencyBlocks] : args = [text_blocks |-> bs]
    /\ result = NoResult
    /\ page_num = 0
    /\ all_page_blocks = <<>>

HasSufficientText ==
    /\ pc = "call"
    /\ result' = [fn |-> "has_sufficient_text",
                  value |-> has_sufficient_text(args.text_blocks)]
    /\ pc' = "return"
    /\ UNCHANGED <<args, page_num, all_page_blocks>>

NextSufficient == HasSufficientText

SpecSufficient == InitSufficient /\ [][NextSufficient]_vars

\* Length of t between its first and its last non-whitespace character.
TrimmedLen(t) ==
    LET solid == {i \in 1..Len(t) : ~IsWhitespace(t[i])}
    IN  IF solid = {} THEN 0 ELSE SetMax(solid) - SetMin(solid) + 1

RECURSIVE TrimmedTotal(_, _)
TrimmedTotal(bs, i) ==
    IF i = 0 THEN 0 ELSE TrimmedLen(bs[i].text) + TrimmedTotal(bs, i - 1)

\* C3: has_sufficient_text is true iff the trimmed lengths sum to 20 or more (19:
\* false, 20: true, no block: false), and the call leaves its input list as it was.
C3_SufficiencyThreshold ==
    /\ [](Returned("has_sufficient_text") =>
            LET total == TrimmedTotal(args.text_blocks, Len(args.text_blocks))
            IN  /\ result.value <=> total >= 20
                /\ total = 19 => result.value = FALSE
                /\ total = 20 => result.value = TRUE
                /\ args.text_blocks = <<>> => result.value = FALSE)
    /\ [][pc' = "return" => args'.text_blocks = args.text_blocks]_vars

\* padded blocks that sum to exactly 20
C3_Witness ==
    /\ Returned("has_sufficient_text")
    /\ Len(args.text_blocks) >= 2
    /\ \E i \in 1..Len(args.text_blocks) :
          TrimmedLen(args.text_blocks[i].text) < Len(args.text_blocks[i].text)
    /\ TrimmedTotal(args.text_blocks, Len(args.text_blocks)) = 20
    /\ result.value = TRUE

(***************************************************************************)
(* Calls of _sort_by_reading_order.                                        *)
(***************************************************************************)
SortCoords == 0..2

InitSort ==
    /\ pc = "call"
    /\ \E k \in 0..MaxBlocks :
          \E key \in [1..k -> SortCoords \X SortCoords] :
              args = [text_blocks |->
                        [i \in 1..k |-> Block(key[i][1], key[i][2],
                                              key[i][1] + 10, key[i][2] + 10, Tag(i))]]
    /\ result = NoResult
    /\ page_num = 0
    /\ all_page_blocks = <<>>

SortByReadingOrder ==
    /\ pc = "call"
    /\ result' = [fn |-> "_sort_by_reading_order",
                  value |-> _sort_by_reading_order(args.text_blocks)]
    /\ pc' = "return"
    /\ UNCHANGED <<args, page_num, all_page_blocks>>

NextSort == SortByReadingOrder

SpecSort == InitSort /\ [][NextSort]_vars

\* The blocks of s at (y0, x0), in the order of s.
AtKey(s, y0, x0) == SelectSeq(s, LAMBDA b : b.y0 = y0 /\ b.x0 = x0)

EmuOrigins == {<<0, 0>>, <<100, 200>>}

EmuWidths == {-5, 45719, 45720, 50000}

EmuHeights == {0, 18287, 18288}

InitMinimum ==
    /\ pc = "call"
    /\ \E k \in 0..MaxBlocks :
          \E dim \in [1..k -> EmuOrigins \X EmuWidths \X EmuHeights] :
              args = [text_blocks |->
                        [i \in 1..k |-> Block(dim[i][1][1], dim[i][1][2],
                                              dim[i][1][1] + dim[i][2],
                                              dim[i][1][2] + dim[i][3], Tag(i))]]
    /\ result = NoResult
    /\ page_num = 0
    /\ all_page_blocks = <<>>

EnsureMinimumDimensions ==
    /\ pc = "call"
    /\ result' = [fn |-> "ensure_minimum_dimensions",
                  value |-> ensure_minimum_dimensions(args.text_blocks)]
    /\ pc' = "return"
    /\ UNCHANGED <<args, page_num, all_page_blocks>>

NextMinimum == EnsureMinimumDimensions

SpecMinimum == InitMinimum /\ [][NextMinimum]_vars

\* C9: same number and order of blocks, x0, y0 and text untouched, a width below
\* 45720 becomes exactly 45720, a height below 18288 exactly 18288, x1 / y1
\* otherwise unchanged, nothing shrinks.
C9_MinimumDimensions ==
    Returned("ensure_minimum_dimensions") =>
        /\ Len(result.value) = Len(args.text_blocks)
        /\ \A i \in 1..Len(args.text_blocks) :
              LET in == args.text_blocks[i]
                  out == result.value[i]
              IN  /\ out.x0 = in.x0 /\ out.y0 = in.y0 /\ out.text = in.text
                  /\ in.x1 - in.x0 < 45720 => out.x1 - out.x0 = 45720
                  /\ in.x1 - in.x0 >= 45720 => out.x1 = in.x1
                  /\ in.y1 - in.y0 < 18288 => out.y1 - out.y0 = 18288
                  /\ in.y1 - in.y0 >= 18288 => out.y1 = in.y1
                  /\ out.x1 - out.x0 >= in.x1 - in.x0
                  /\ out.y1 - out.y0 >= in.y1 - in.y0

\* one block is widened, one is heightened, one is left alone
C9_Witness ==
    /\ Returned("ensure_minimum_dimensions")
    /\ Len(args.text_blocks) = 3
    /\ \E i, j, k \in 1..3 :
          /\ args.text_blocks[i].x1 - args.text_blocks[i].x0 = 45719
          /\ result.value[i].x1 = args.text_blocks[i].x0 + 45720
          /\ args.text_blocks[j].y1 - args.text_blocks[j].y0 = 18287
          /\ result.value[j].y1 = args.text_blocks[j].y0 + 18288
          /\ result.value[k] = args.text_blocks[k]

(***************************************************************************)
(* Calls of merge_overlapping_blocks.                                      *)
(***************************************************************************)
MergeXs == 0..3

\* <<x0, x1>>: the intervals of positive width and one of zero width
MergeWidths == {iv \in MergeXs \X MergeXs : iv[1] < iv[2]} \cup {<<0, 0>>}

MergeTops == {0, 1}

Thresholds == {[num |-> 1, den |-> 2], [num |-> 1, den |-> 1]}

InitMerge ==
    /\ pc = "call"
    /\ \E k \in 0..MaxBlocks :
          \E geo \in [1..k -> MergeWidths \X MergeTops], thr \in Thresholds :
              args = [text_blocks |->
                        [i \in 1..k |-> Block(geo[i][1][1], geo[i][2],
                                              geo[i][1][2], geo[i][2] + 2, Tag(i))],
                      overlap_threshold |-> thr]
    /\ result = NoResult
    /\ page_num = 0
    /\ all_page_blocks = <<>>

MergeOverlappingBlocks ==
    /\ pc = "call"
    /\ result' = [fn |-> "merge_overlapping_blocks",
                  value |-> merge_overlapping_blocks(args.text_blocks,
                                                     args.overlap_threshold)]
    /\ pc' = "return"
    /\ UNCHANGED <<args, page_num, all_page_blocks>>

NextMerge == MergeOverlappingBlocks

SpecMerge == InitMerge /\ [][NextMerge]_vars

\* Area of the intersection of two rectangles.
Intersection(a, b) ==
    LET w == Min2(a.x1, b.x1) - Max2(a.x0, b.x0)
        h == Min2(a.y1, b.y1) - Max2(a.y0, b.y0)
    IN  IF w > 0 /\ h > 0 THEN w * h ELSE 0

Area(a) == (a.x1 - a.x0) * (a.y1 - a.y0)

\* intersection area / smaller area >= thr
RatioAtLeast(a, b, thr) ==
    /\ Intersection(a, b) > 0
    /\ Intersection(a, b) * thr.den >= thr.num * Min2(Area(a), Area(b))

\* C1: no two distinct blocks of the list returned by merge_overlapping_blocks
\* have an overlap ratio >= threshold.
C1_NoOverlapLeft ==
    Returned("merge_overlapping_blocks") =>
        \A i, j \in 1..Len(result.value) :
            i # j => ~RatioAtLeast(result.value[i], result.value[j],
                                   args.overlap_threshold)

(***************************************************************************)
(* Calls of normalize_and_group_text_blocks, and a second call on the      *)
(* list the first one returned.                                            *)
(***************************************************************************)
\* <<x0, y0, y1>>
NormalizeGeometry ==
    {<<0, 0, 180>>, <<0, 60, 120>>, <<100, 60, 180>>, <<0, 0, 20>>, <<0, 25, 45>>}

NormalizeTexts ==
    {<<"a", "-", "\n", "b">>, <<"A", ".">>, <<" ", "\n">>}

InitNormalize ==
    /\ pc = "call"
    /\ \E k \in 0..MaxBlocks :
          \E geo \in [1..k -> NormalizeGeometry], txt \in [1..k -> NormalizeTexts],
             dehyphenate \in BOOLEAN :
              args = [text_blocks |->
                        [i \in 1..k |-> Block(geo[i][1], geo[i][2], geo[i][1] + 100,
                                              geo[i][3], txt[i])],
                      dehyphenate |-> dehyphenate]
    /\ result = NoResult
    /\ page_num = 0
    /\ all_page_blocks = <<>>

NormalizeAndGroup ==
    /\ pc = "call"
    /\ result' = [fn |-> "normalize_and_group_text_blocks",
                  value |-> normalize_and_group_text_blocks(args.text_blocks,
                                                            args.dehyphenate)]
    /\ pc' = "return"
    /\ UNCHANGED <<args, page_num, all_page_blocks>>

\* normalize_and_group_text_blocks called on its own output
NormalizeAgain ==
    /\ Returned("normalize_and_group_text_blocks")
    /\ result' = [fn |-> "normalize_again",
                  first |-> result.value,
                  value |-> normalize_and_group_text_blocks(result.value,
                                                            args.dehyphenate)]
    /\ UNCHANGED <<pc, args, page_num, all_page_blocks>>

NextNormalize == NormalizeAndGroup \/ NormalizeAgain

SpecNormalize == InitNormalize /\ [][NextNormalize]_vars

\* C2: normalize_and_group_text_blocks applied to its own output returns that
\* output: same blocks, same rectangles, same texts.
C2_Idempotent ==
    Returned("normalize_again") => result.value = result.first

(***************************************************************************)
(* _pdf_to_pptx_with_ocr: the document is opened, its pages are processed  *)
(* in order, the presentation is written.                                  *)
(***************************************************************************)
Line(n) == [i \in 1..n |-> "x"]

Pages ==
    { \* a letter page with one native block 32 points high
      [width |-> 612, height |-> 792, ocr |-> Raises,
       native |-> Found(<<Block(72, 100, 540, 132, Line(24))>>)],
      \* a letter page with a tall native block and a line at the foot of the page
      [width |-> 612, height |-> 792, ocr |-> Raises,
       native |-> Found(<<Block(72, 72, 540, 400, Line(30)),
                          Block(72, 770, 540, 790, Line(12))>>)],
      \* a scanned A4 page: no native text, two OCR lines
      [width |-> 595, height |-> 842, native |-> Found(<<>>),
       ocr |-> Found(<<Block(60, 60, 500, 75, Line(8)),
                       Block(60, 300, 500, 420, Line(8))>>)],
      \* a page with too little native text on which OCR fails
      [width |-> 612, height |-> 792, ocr |-> Raises,
       native |-> Found(<<Block(72, 100, 540, 112, Line(5))>>)],
      \* a page on which both extractors fail
      [width |-> 612, height |-> 792, native |-> Raises, ocr |-> Raises],
      \* a page with a tall block, a block inside its span and a block beside it
      [width |-> 612, height |-> 792, ocr |-> Raises,
       native |-> Found(<<Block(0, 0, 100, 180, Line(10)),
                          Block(0, 60, 100, 120, Line(10)),
                          Block(100, 60, 200, 180, Line(10))>>)],
      \* a page on which the native extractor fails after its first block, and OCR
      \* fails
      [width |-> 612, height |-> 792, ocr |-> Raises,
       native |-> RaisesAfter(<<Block(72, 100, 540, 300, Line(24))>>)] }

InitPipeline ==
    /\ pc = "open"
    /\ \E n \in 0..MaxPages :
          \E doc \in [1..n -> Pages], dehyphenate \in BOOLEAN :
              args = [doc |-> doc, dehyphenate |-> dehyphenate]
    /\ result = NoResult
    /\ page_num = 0
    /\ all_page_blocks = <<>>

pdf_width == args.doc[1].width

pdf_height == args.doc[1].height

page_count == Len(args.doc)

slide_config == calculate_optimal_slide_size(pdf_width, pdf_height)

\* fitz.open, the empty-document test
OpenDocument ==
    /\ pc = "open"
    /\ IF Len(args.doc) = 0
       THEN /\ pc' = "raise"
            /\ result' = [fn |-> "_pdf_to_pptx_with_ocr",
                          error |-> "OCR conversion failed: Empty PDF"]
       ELSE /\ pc' = "loop"
            /\ UNCHANGED result
    /\ UNCHANGED <<args, page_num, all_page_blocks>>

\* one pass of the loop over the pages
ProcessPage ==
    /\ pc = "loop"
    /\ page_num < page_count
    /\ all_page_blocks' =
          Append(all_page_blocks,
                 transformed_blocks(args.doc[page_num + 1], args.dehyphenate,
                                    pdf_width, pdf_height, slide_config))
    /\ page_num' = page_num + 1
    /\ UNCHANGED <<pc, args, result>>

\* the loop is over: the blocks of all pages go to the document writer
CreatePptx ==
    /\ pc = "loop"
    /\ page_num = page_count
    /\ result' = [fn |-> "_pdf_to_pptx_with_ocr",
                  value |-> create_pptx_from_blocks(all_page_blocks, slide_config)]
    /\ pc' = "return"
    /\ UNCHANGED <<args, page_num, all_page_blocks>>

NextPipeline == OpenDocument \/ ProcessPage \/ CreatePptx

SpecPipeline == InitPipeline /\ [][NextPipeline]_vars

\* C10: every block handed to the document writer is at least 45720 EMU wide and
\* 18288 EMU high.
C10_MinimumSizeEmitted ==
    Returned("_pdf_to_pptx_with_ocr") =>
        \A k \in 1..Len(result.value.slides) :
            \A i \in 1..Len(result.value.slides[k].text_blocks) :
                LET b == result.value.slides[k].text_blocks[i]
                IN  b.x1 - b.x0 >= 45720 /\ b.y1 - b.y0 >= 18288

(***************************************************************************)
(* Calls of apply_margin, on rectangles (x0 < x1, y0 < y1) inside, across  *)
(* and beyond the bounds.                                                  *)
(***************************************************************************)
MarginCoords == {0, 40, 50, 95, 100, 130}

MarginAmounts == {0, 5, 10}

MarginBounds == {100}

InitMargin ==
    /\ pc = "call"
    /\ \E x0 \in MarginCoords, y0 \in MarginCoords, x1 \in MarginCoords, y1 \in MarginCoords,
          margin_x \in MarginAmounts, margin_y \in MarginAmounts,
          max_width \in MarginBounds, max_height \in MarginBounds :
          /\ x0 < x1
          /\ y0 < y1
          /\ args = [x0 |-> RInt(x0), y0 |-> RInt(y0),
                     x1 |-> RInt(x1), y1 |-> RInt(y1),
                     margin_x |-> RInt(margin_x), margin_y |-> RInt(margin_y),
                     max_width |-> RInt(max_width), max_height |-> RInt(max_height)]
    /\ result = NoResult
    /\ page_num = 0
    /\ all_page_blocks = <<>>

ApplyMargin ==
    /\ pc = "call"
    /\ result' = [fn |-> "apply_margin",
                  value |-> apply_margin(args.x0, args.y0, args.x1, args.y1,
                                         args.margin_x, args.margin_y,
                                         args.max_width, args.max_height)]
    /\ pc' = "return"
    /\ UNCHANGED <<args, page_num, all_page_blocks>>

NextMargin == ApplyMargin

SpecMargin == InitMargin /\ [][NextMargin]_vars

\* C11: the rectangle apply_margin returns has x1 > x0 and y1 > y0, whatever the
\* input rectangle, the margins and the bounds.
C11_NonDegenerate ==
    Returned("apply_margin") =>
        /\ RLt(result.value[1], result.value[3])
        /\ RLt(result.value[2], result.value[4])

(***************************************************************************)
(* Calls of transform_blocks_to_pptx, on blocks inside the page, across    *)
(* its edges and beyond them.                                              *)
(***************************************************************************)
MaxTransformBlocks == 2

\* <<width, height>> in points: letter, A4
PageSizes == {<<612, 792>>, <<595, 842>>}

\* <<x0, x1>>
TransformXs == {<<-20, 50>>, <<72, 540>>, <<600, 700>>, <<650, 640>>}

\* <<y0, y1>>
TransformYs == {<<-30, 10>>, <<100, 132>>, <<770, 790>>, <<800, 900>>}

InitTransform ==
    /\ pc = "call"
    /\ \E k \in 0..MaxTransformBlocks :
          \E geo \in [1..k -> TransformXs \X TransformYs], size \in PageSizes :
              args = [text_blocks |->
                        [i \in 1..k |-> Block(geo[i][1][1], geo[i][2][1],
                                              geo[i][1][2], geo[i][2][2], Tag(i))],
                      pdf_width |-> size[1],
                      pdf_height |-> size[2],
                      slide_config |-> calculate_optimal_slide_size(size[1], size[2])]
    /\ result = NoResult
    /\ page_num = 0
    /\ all_page_blocks = <<>>

TransformBlocksToPptx ==
    /\ pc = "call"
    /\ result' = [fn |-> "transform_blocks_to_pptx",
                  value |-> transform_blocks_to_pptx(args.text_blocks, args.pdf_width,
                                                     args.pdf_height, args.slide_config)]
    /\ pc' = "return"
    /\ UNCHANGED <<args, page_num, all_page_blocks>>

NextTransform == TransformBlocksToPptx

SpecTransform == InitTransform /\ [][NextTransform]_vars

\* C12: every block transform_blocks_to_pptx returns has 0 <= x0, x1 <= canvas
\* width, 0 <= y0 and y1 <= canvas height, in EMU, blocks at or beyond the edge of
\* the page included; the list keeps its length and its texts.
C12_InsideCanvas ==
    Returned("transform_blocks_to_pptx") =>
        /\ Len(result.value) = Len(args.text_blocks)
        /\ \A i \in 1..Len(result.value) :
              LET b == result.value[i]
              IN  /\ 0 <= b.x0
                  /\ b.x1 <= args.slide_config.width_emu
                  /\ 0 <= b.y0
                  /\ b.y1 <= args.slide_config.height_emu
                  /\ b.text = args.text_blocks[i].text

\* a block that reaches beyond the right and the lower edge of the page is cut at
\* the canvas, one that starts left of and above the page starts at 0
C12_Witness ==
    /\ Returned("transform_blocks_to_pptx")
    /\ Len(args.text_blocks) = 2
    /\ args.text_blocks[1].x1 > args.pdf_width
    /\ args.text_blocks[1].y1 > args.pdf_height
    /\ result.value[1].x1 = args.slide_config.width_emu
    /\ result.value[1].y1 = args.slide_config.height_emu
    /\ args.text_blocks[2].x0 < 0
    /\ args.text_blocks[2].y0 < 0
    /\ result.value[2].x0 = 0
    /\ result.value[2].y0 = 0

(***************************************************************************)
(* Properties of the page loop.                                            *)
(***************************************************************************)
\* native extraction and OCR both fail on the page
BothFail(page) == page.native.raises /\ page.ocr.raises

\* C13: a page on which native extraction and OCR both fail contributes an empty
\* block list; only the empty document makes the conversion raise; after any page,
\* failed or not, the loop goes on to the next page until the last one; and the
\* presentation returned has a slide for every page.
C13_PageFailureIsolated ==
    /\ [](\A k \in 1..Len(all_page_blocks) :
              BothFail(args.doc[k]) => all_page_blocks[k] = <<>>)
    /\ [](pc = "raise" => Len(args.doc) = 0)
    /\ [][pc = "loop" /\ page_num < Len(args.doc) =>
              pc' = "loop" /\ page_num' = page_num + 1
              /\ Len(all_page_blocks') = page_num + 1]_vars
    /\ [][pc = "loop" /\ page_num = Len(args.doc) => pc' = "return"]_vars
    /\ [](Returned("_pdf_to_pptx_with_ocr") =>
              /\ page_num = Len(args.doc)
              /\ Len(result.value.slides) = Len(args.doc))

\* the first page fails in both extractors, the second page is converted
C13_Witness ==
    /\ Returned("_pdf_to_pptx_with_ocr")
    /\ Len(args.doc) = 2
    /\ BothFail(args.doc[1])
    /\ result.value.slides[1].text_blocks = <<>>
    /\ ~args.doc[2].native.raises
    /\ result.value.slides[2].text_blocks # <<>>

\* C14: a conversion that returns has created exactly one slide per page, in page
\* order, slide k holding the blocks the page loop made of page k and of no other
\* page; a page without blocks has its (blank) slide.
C14_OneSlidePerPage ==
    /\ \A k \in 1..Len(all_page_blocks) :
          all_page_blocks[k] = transformed_blocks(args.doc[k], args.dehyphenate,
                                                  pdf_width, pdf_height, slide_config)
    /\ Returned("_pdf_to_pptx_with_ocr") =>
          /\ Len(result.value.slides) = Len(args.doc)
          /\ \A k \in 1..Len(args.doc) :
                /\ result.value.slides[k].page_number = k
                /\ result.value.slides[k].text_blocks = all_page_blocks[k]
                /\ _extract_page_text_blocks(args.doc[k]) = <<>> =>
                      result.value.slides[k].text_blocks = <<>>

\* two different pages, the second one without blocks
C14_Witness ==
    /\ Returned("_pdf_to_pptx_with_ocr")
    /\ Len(args.doc) = 2
    /\ Len(result.value.slides) = 2
    /\ Len(result.value.slides[1].text_blocks) = 2
    /\ _extract_page_text_blocks(args.doc[2]) = <<>>
    /\ result.value.slides[2].text_blocks = <<>>

\* The default of merge_overlapping_blocks's overlap_threshold.
DefaultOverlapThreshold == [num |-> 1, den |-> 2]

\* C15: the blocks of every page pass through the overlap resolver after
\* normalization and before the coordinate transform: what the page loop collects
\* for page k is the transform of the resolved normalized blocks of page k.
C15_OverlapResolved ==
    \A k \in 1..Len(all_page_blocks) :
        all_page_blocks[k] =
            transform_blocks_to_pptx(
                merge_overlapping_blocks(
                    normalize_and_group_text_blocks(_extract_page_text_blocks(args.doc[k]),
                                                    args.dehyphenate),
                    DefaultOverlapThreshold),
                pdf_width, pdf_height, slide_config)

(***************************************************************************)
(* main.py: POST /convert.  An upload is a file name and a content; a      *)
(* content is a record [size, opens, doc, save_raises]: its length, whether *)
(* fitz.open accepts it, its pages, and whether saving the presentation    *)
(* made of it fails.                                                       *)
(***************************************************************************)
HTTPException(status_code, detail) ==
    [kind |-> "HTTPException", status_code |-> status_code, detail |-> detail]

Exception(message) == [kind |-> "Exception", detail |-> message]

\* Mutant of ConvertExcept: the handler has no "except HTTPException: raise".
Mutant_ConvertExcept_catch_all(e) ==
    HTTPException(500, <<"Conversion failed: ">> \o e.detail)

\* except HTTPException: raise / except Exception as e: raise HTTPException(500, ...)
ConvertExcept(e) ==
    IF e.kind = "HTTPException" THEN e
    ELSE HTTPException(500, <<"Conversion failed: ">> \o e.detail)

\* file.filename.lower().endswith('.pdf'); "" is a missing file name
FileNames == {"", "notes.txt", "notes.pdf", "NOTES.PDF", "pdf"}

IsPdfName(filename) == filename \in {"notes.pdf", "NOTES.PDF"}

validate_pdf(pdf_bytes) ==
    IF ~pdf_bytes.opens THEN FALSE ELSE Len(pdf_bytes.doc) > 0

\* pdf_to_pptx with use_ocr=True: the outcome of _pdf_to_pptx_with_ocr, the
\* presentation or the exception it raises
pdf_to_pptx(pdf_bytes, dehyphenate) ==
    IF ~pdf_bytes.opens
    THEN [raises |-> TRUE, exception |-> Exception(<<"OCR conversion failed: ", "open">>)]
    ELSE IF Len(pdf_bytes.doc) = 0
    THEN [raises |-> TRUE, exception |-> Exception(<<"OCR conversion failed: ", "Empty PDF">>)]
    ELSE IF pdf_bytes.save_raises
    THEN [raises |-> TRUE,
          exception |-> Exception(<<"OCR conversion failed: ",
                                    "PowerPoint generation failed: ", "save">>)]
    ELSE LET first_page == pdf_bytes.doc[1]
             config == calculate_optimal_slide_size(first_page.width, first_page.height)
             blocks == [k \in 1..Len(pdf_bytes.doc) |->
                           transformed_blocks(pdf_bytes.doc[k], dehyphenate,
                                              first_page.width, first_page.height, config)]
         IN  [raises |-> FALSE, value |-> create_pptx_from_blocks(blocks, config)]

UploadPages ==
    { [width |-> 612, height |-> 792, ocr |-> Raises,
       native |-> Found(<<Block(72, 100, 540, 132, Line(24))>>)],
      [width |-> 612, height |-> 792, native |-> Raises, ocr |-> Raises] }

Contents ==
    { [size |-> 0, opens |-> FALSE, doc |-> <<>>, save_raises |-> FALSE],
      [size |-> 17, opens |-> FALSE, doc |-> <<>>, save_raises |-> FALSE],
      [size |-> 300, opens |-> TRUE, doc |-> <<>>, save_raises |-> FALSE] }
    \cup { [size |-> 1000, opens |-> TRUE, doc |-> doc, save_raises |-> save_raises] :
             doc \in UNION {[1..n -> UploadPages] : n \in 1..MaxPages},
             save_raises \in BOOLEAN }

InitConvert ==
    /\ pc = "request"
    /\ \E filename \in FileNames, content \in Contents, dehyphenate \in BOOLEAN :
          args = [filename |-> filename, content |-> content, dehyphenate |-> dehyphenate]
    /\ result = NoResult
    /\ page_num = 0
    /\ all_page_blocks = <<>>

\* the file type test, outside the try block
ValidateFileType ==
    /\ pc = "request"
    /\ IF ~IsPdfName(args.filename)
       THEN /\ result' = [fn |-> "convert_pdf_to_pptx",
                          response |-> HTTPException(400, <<"Please upload a PDF file">>)]
            /\ pc' = "respond"
       ELSE /\ pc' = "read"
            /\ UNCHANGED result
    /\ UNCHANGED <<args, page_num, all_page_blocks>>

\* pdf_content = await file.read(); the empty-file test
ReadContent ==
    /\ pc = "read"
    /\ IF args.content.size = 0
       THEN /\ result' = [fn |-> "convert_pdf_to_pptx",
                          response |-> ConvertExcept(
                                           HTTPException(400, <<"Empty file uploaded">>))]
            /\ pc' = "respond"
       ELSE /\ pc' = "validate"
            /\ UNCHANGED result
    /\ UNCHANGED <<args, page_num, all_page_blocks>>

ValidatePdf ==
    /\ pc = "validate"
    /\ IF ~validate_pdf(args.content)
       THEN /\ result' = [fn |-> "convert_pdf_to_pptx",
                          response |-> ConvertExcept(
                                           HTTPException(400, <<"Invalid PDF file">>))]
            /\ pc' = "respond"
       ELSE /\ pc' = "pdf_to_pptx"
            /\ UNCHANGED result
    /\ UNCHANGED <<args, page_num, all_page_blocks>>

\* the call of pdf_to_pptx and the response made of its outcome
ConvertPdfToPptx ==
    /\ pc = "pdf_to_pptx"
    /\ LET outcome == pdf_to_pptx(args.content, args.dehyphenate)
       IN  result' = [fn |-> "convert_pdf_to_pptx",
                      response |->
                          IF outcome.raises THEN ConvertExcept(outcome.exception)
                          ELSE [kind |-> "StreamingResponse", status_code |-> 200,
                                content |-> outcome.value]]
    /\ pc' = "respond"
    /\ UNCHANGED <<args, page_num, all_page_blocks>>

NextConvert == ValidateFileType \/ ReadContent \/ ValidatePdf \/ ConvertPdfToPptx

SpecConvert == InitConvert /\ [][NextConvert]_vars

\* The input is invalid: its name, its length or its content.
InvalidUpload ==
    \/ ~IsPdfName(args.filename)
    \/ args.content.size = 0
    \/ ~args.content.opens
    \/ Len(args.content.doc) = 0

\* C16: an upload whose name does not end in .pdf is answered 400 "Please upload a
\* PDF file"; otherwise one of length zero 400 "Empty file uploaded"; otherwise one
\* that does not open as a PDF or has no page 400 "Invalid PDF file"; pdf_to_pptx
\* is not called for any of them and none is answered 500.
C16_InvalidInputRejected ==
    /\ pc = "pdf_to_pptx" => ~InvalidUpload
    /\ pc = "respond" /\ InvalidUpload =>
          /\ result.response.kind = "HTTPException"
          /\ result.response.status_code = 400
          /\ result.response.detail =
                IF ~IsPdfName(args.filename) THEN <<"Please upload a PDF file">>
                ELSE IF args.content.size = 0 THEN <<"Empty file uploaded">>
                ELSE <<"Invalid PDF file">>
    /\ pc = "respond" /\ ~InvalidUpload => result.response.status_code \in {200, 500}

\* a PDF without pages under a .pdf name is turned away as invalid
C16_Witness ==
    /\ pc = "respond"
    /\ IsPdfName(args.filename)
    /\ args.content.opens
    /\ args.content.size > 0
    /\ Len(args.content.doc) = 0
    /\ result.response = HTTPException(400, <<"Invalid PDF file">>)

(***************************************************************************)
(* pptx_generator.py: _looks_like_title, _extract_title_and_content        *)
(***************************************************************************)
Digits == {"0", "1", "2", "3", "4", "5", "6", "7", "8", "9"}

\* str.isupper(): a cased character, and no lower-case one
isupper(text) ==
    /\ \E i \in 1..Len(text) : text[i] \in UpperLetters
    /\ \A i \in 1..Len(text) : text[i] \notin LowerLetters

\* text.split('\n')
RECURSIVE split_lines(_)
split_lines(text) ==
    LET newlines == {i \in 1..Len(text) : text[i] = "\n"}
    IN  IF newlines = {} THEN <<text>>
        ELSE LET i == SetMin(newlines)
             IN  <<SubSeq(text, 1, i - 1)>> \o split_lines(SubSeq(text, i + 1, Len(text)))

\* '\n'.join(lines)
RECURSIVE join_lines(_)
join_lines(lines) ==
    IF lines = <<>> THEN <<>>
    ELSE IF Len(lines) = 1 THEN lines[1]
    ELSE lines[1] \o <<"\n">> \o join_lines(Tail(lines))

SectionKeywords ==
    { <<"C", "h", "a", "p", "t", "e", "r">>, <<"S", "e", "c", "t", "i", "o", "n">>,
      <<"P", "a", "r", "t">>, <<"A", "r", "t", "i", "c", "l", "e">> }

\* text.startswith(('Chapter', 'Section', 'Part', 'Article'))
StartsWithKeyword(text) == \E keyword \in SectionKeywords : StartsWith(text, keyword)

\* re.match(r'^\d+\.?\s+[A-Z]', text)
NumberedSection(text) ==
    LET p == RunEnd(text, 1, Digits)
        q == IF p <= Len(text) /\ text[p] = "." THEN p + 1 ELSE p
        r == RunEnd(text, q, Whitespace)
    IN  p > 1 /\ r > q /\ r <= Len(text) /\ text[r] \in UpperLetters

\* text.rstrip().endswith(('.', '!', '?'))
EndsSentence(text) == \E c \in {".", "!", "?"} : EndsWith(rstrip(text), c)

\* Mutant of _looks_like_title: every short text is a title, sentence or not.
Mutant_looks_like_title_any_short(text) ==
    IF text = <<>> THEN FALSE
    ELSE IF isupper(text) /\ Len(text) < 80 THEN TRUE
    ELSE IF StartsWithKeyword(text) THEN TRUE
    ELSE IF NumberedSection(text) THEN TRUE
    ELSE Len(text) < 60

_looks_like_title(text) ==
    IF text = <<>> THEN FALSE
    ELSE IF isupper(text) /\ Len(text) < 80 THEN TRUE
    ELSE IF StartsWithKeyword(text) THEN TRUE
    ELSE IF NumberedSection(text) THEN TRUE
    ELSE IF Len(text) < 60 /\ ~EndsSentence(text) THEN TRUE
    ELSE FALSE

\* <<title, content>>
_extract_title_and_content(text) ==
    LET lines == split_lines(text)
        first_line == strip(lines[1])
    IN  IF _looks_like_title(first_line)
        THEN LET content_lines == IF Len(lines) > 1 THEN Tail(lines) ELSE <<>>
             IN  <<first_line, strip(join_lines(content_lines))>>
        ELSE <<<<>>, text>>

(***************************************************************************)
(* Calls of _extract_title_and_content: a first line, and nothing, one     *)
(* line or several lines behind it.                                        *)
(***************************************************************************)
Rep(c, n) == [i \in 1..n |-> c]

FirstLines ==
    { <<>>, <<" ", " ">>, <<"1", "2", "3">>,
      Rep("A", 5), Rep("A", 79), Rep("A", 80), Rep("A", 78) \o <<".">>,
      Rep("A", 79) \o <<".">>, <<"A", " ", "1", "!">>,
      Rep("a", 59), Rep("a", 60), Rep("a", 10) \o <<".">>, Rep("a", 58) \o <<".">>,
      <<"a", "b", "?">>, <<"a", "!">>, <<"a", ":">>,
      <<" ">> \o Rep("a", 10) \o <<" ">>, Rep("a", 10) \o <<".", " ">>,
      <<"C", "h", "a", "p", "t", "e", "r">> \o Rep("a", 60) \o <<".">>,
      <<"S", "e", "c", "t", "i", "o", "n">> \o Rep("a", 60) \o <<".">>,
      <<"P", "a", "r", "t">> \o Rep("a", 60) \o <<".">>,
      <<"A", "r", "t", "i", "c", "l", "e">> \o Rep("a", 60) \o <<".">>,
      <<"c", "h", "a", "p", "t", "e", "r">> \o Rep("a", 60) \o <<".">>,
      <<"1", ".", " ", "I">> \o Rep("a", 60) \o <<".">>,
      <<"1", "2", " ", "\t", "I">> \o Rep("a", 60) \o <<".">>,
      <<"1", ".", " ", "i">> \o Rep("a", 60) \o <<".">>,
      <<"1", ".", "I">> \o Rep("a", 60) \o <<".">>,
      <<"1", ".", ".", " ", "I">> \o Rep("a", 60) \o <<".">> }

RestLines ==
    { <<>>, <<"\n">>, <<"\n", "b", "o", "d", "y", ".">>,
      <<"\n", "\n", " ", "b", "o", "d", "y", "\n", "e", "n", "d", " ">> }

InitTitle ==
    /\ pc = "call"
    /\ \E first \in FirstLines, rest \in RestLines : args = [text |-> first \o rest]
    /\ result = NoResult
    /\ page_num = 0
    /\ all_page_blocks = <<>>

ExtractTitleAndContent ==
    /\ pc = "call"
    /\ result' = [fn |-> "_extract_title_and_content",
                  value |-> _extract_title_and_content(args.text)]
    /\ pc' = "return"
    /\ UNCHANGED <<args, page_num, all_page_blocks>>

NextTitle == ExtractTitleAndContent

SpecTitle == InitTitle /\ [][NextTitle]_vars

\* The text up to its first newline, without the whitespace around it.
FirstLine(t) ==
    LET stop == SetMin({i \in 1..(Len(t) + 1) : i = Len(t) + 1 \/ t[i] = "\n"})
    IN  strip(SubSeq(t, 1, stop - 1))

\* The text behind its first newline, without the whitespace around it.
BehindFirstLine(t) ==
    LET stop == SetMin({i \in 1..(Len(t) + 1) : i = Len(t) + 1 \/ t[i] = "\n"})
    IN  strip(SubSeq(t, stop + 1, Len(t)))

\* The title rule as the specification words it.
TitleRule(line) ==
    /\ line # <<>>
    /\ \/ /\ \E i \in 1..Len(line) : line[i] \in UpperLetters
          /\ \A i \in 1..Len(line) : line[i] \notin LowerLetters
          /\ Len(line) < 80
       \/ \E keyword \in SectionKeywords :
             Len(line) >= Len(keyword) /\ \A i \in 1..Len(keyword) : line[i] = keyword[i]
       \/ \E p \in 1..Len(line), q \in 1..Len(line) :
             /\ p < q
             /\ \A i \in 1..p : line[i] \in Digits \/ (i = p /\ i > 1 /\ line[i] = ".")
             /\ \A i \in (p + 1)..(q - 1) : line[i] \in Whitespace
             /\ p + 1 <= q - 1
             /\ line[q] \in UpperLetters
       \/ /\ Len(line) < 60
          /\ line[Len(line)] \notin {".", "!", "?"}

\* C17: the first line of the text is a title iff the title rule holds of it; then
\* the result is (first line, the lines behind it) and the body does not hold the
\* first line; otherwise the result is (no title, the whole text).
C17_TitleDetection ==
    Returned("_extract_title_and_content") =>
        LET line == FirstLine(args.text)
        IN  /\ TitleRule(line) =>
                  /\ result.value[1] = line
                  /\ result.value[2] = BehindFirstLine(args.text)
                  /\ Len(result.value[2]) <= Len(args.text) - Len(line)
            /\ ~TitleRule(line) => result.value = <<<<>>, args.text>>

\* a numbered heading longer than 60 characters that ends in a full stop is the
\* title, the lines behind it are the body
C17_Witness ==
    /\ Returned("_extract_title_and_content")
    /\ Len(FirstLine(args.text)) > 60
    /\ FirstLine(args.text)[1] \in Digits
    /\ result.value[1] = FirstLine(args.text)
    /\ result.value[2] = <<"b", "o", "d", "y", "\n", "e", "n", "d">>

(***************************************************************************)
(* pptx_generator.py: _intelligent_text_combination.  "bullet" stands for  *)
(* the one character U+2022.                                               *)
(***************************************************************************)
EndsWithAny(text, chars) == \E c \in chars : EndsWith(text, c)

_needs_paragraph_break(prev_text, current_text) ==
    IF EndsWithAny(rstrip(prev_text), {".", "!", "?", ":"}) THEN TRUE
    \* re.match(r'^[\d•\-\*]\s*', current_text)
    ELSE IF current_text # <<>> /\ current_text[1] \in Digits \cup {"bullet", "-", "*"}
    THEN TRUE
    ELSE IF isupper(current_text) /\ Len(current_text) > 10 THEN TRUE
    ELSE IF StartsWithKeyword(current_text) THEN TRUE
    ELSE FALSE

_needs_line_break(prev_text, current_text) ==
    IF isupper(current_text) \/ StartsWith(current_text, <<"(">>) THEN TRUE
    ELSE IF Len(prev_text) > 50 /\ EndsWithAny(rstrip(prev_text), {",", ";"}) THEN TRUE
    ELSE FALSE

\* The loop over text_parts from its second element on; parts is the list built
\* so far.
RECURSIVE CombinationLoop(_, _, _)
CombinationLoop(text_parts, i, parts) ==
    IF i > Len(text_parts) THEN parts
    ELSE LET part == text_parts[i]
             prev_part == text_parts[i - 1]
         IN  CombinationLoop(text_parts, i + 1,
                 Append(parts,
                        IF _needs_paragraph_break(prev_part, part)
                        THEN <<"\n", "\n">> \o part
                        ELSE IF _needs_line_break(prev_part, part)
                        THEN <<"\n">> \o part
                        ELSE IF ~EndsWith(prev_part, " ")
                        THEN <<" ">> \o part
                        ELSE part))

_intelligent_text_combination(text_parts) ==
    IF text_parts = <<>> THEN <<>>
    ELSE IF Len(text_parts) = 1 THEN text_parts[1]
    ELSE Join(CombinationLoop(text_parts, 2, <<text_parts[1]>>))

(***************************************************************************)
(* Calls of _combine_content_text and of _intelligent_text_combination on  *)
(* the same lists of non-empty pieces.                                     *)
(***************************************************************************)
TextPieces ==
    { <<"i", "n", "t", "r", "o">>, <<"I", "n", "t", "r", "o", ".">>,
      <<"N", "e", "x", "t">>, <<"o", "k", "!">>, <<"e", "n", "d", ",">>,
      Rep("a", 51), Rep("a", 50), Rep("a", 51) \o <<";">>,
      <<"bullet", " ", "i", "t", "e", "m">>, <<"-", " ", "i", "t", "e", "m">>,
      <<"(", "x", ")">>, <<"U", "P">>, Rep("A", 11),
      <<"P", "a", "r", "t", " ", "2">>, <<"1", " ", "i", "t", "e", "m">> }

InitCombine ==
    /\ pc = "call"
    /\ \E k \in 0..MaxBlocks :
          \E text_pieces \in [1..k -> TextPieces] : args = [text_pieces |-> text_pieces]
    /\ result = NoResult
    /\ page_num = 0
    /\ all_page_blocks = <<>>

CombineContentText ==
    /\ pc = "call"
    /\ result' = [fn |-> "_combine_content_text",
                  value |-> _combine_content_text(args.text_pieces)]
    /\ pc' = "return"
    /\ UNCHANGED <<args, page_num, all_page_blocks>>

IntelligentTextCombination ==
    /\ pc = "call"
    /\ result' = [fn |-> "_intelligent_text_combination",
                  value |-> _intelligent_text_combination(args.text_pieces)]
    /\ pc' = "return"
    /\ UNCHANGED <<args, page_num, all_page_blocks>>

NextCombine == CombineContentText \/ IntelligentTextCombination

SpecCombine == InitCombine /\ [][NextCombine]_vars

\* C18: on every list of non-empty pieces _intelligent_text_combination returns
\* the string _combine_content_text returns.
C18_SameJoin ==
    Returned("_intelligent_text_combination") =>
        result.value = _combine_content_text(args.text_pieces)

\* The paragraph-break rule as the specification words it.
BreakRule(previous, next) ==
    \/ next[1] \in UpperLetters /\ previous[Len(previous)] = "."
    \/ Len(next) > 50 /\ Len(previous) > 50
    \/ next[1] = "bullet"
    \/ next[1] = "-"

\* C19: _combine_content_text joins two pieces with two newlines exactly when the
\* next piece starts with an uppercase letter and the previous one ends in '.', or
\* both are longer than 50 characters, or the next piece starts with a bullet or a
\* dash; with one space otherwise.
C19_ParagraphBreakRule ==
    Returned("_combine_content_text") /\ Len(args.text_pieces) = 2 =>
        LET previous == args.text_pieces[1]
            next == args.text_pieces[2]
        IN  result.value =
                previous \o (IF BreakRule(previous, next) THEN <<"\n", "\n">> ELSE <<" ">>)
                         \o next

(***************************************************************************)
(* Calls of _group_into_content_blocks, on blocks sorted by y0 whose texts *)
(* are non-empty and stripped, as the normalizer passes them.              *)
(***************************************************************************)
\* <<y0, y1>>
GroupSpans ==
    {<<0, 20>>, <<0, 200>>, <<50, 70>>, <<51, 71>>, <<51, 250>>, <<120, 140>>, <<150, 200>>}

InitGroup ==
    /\ pc = "call"
    /\ \E k \in 0..MaxBlocks :
          \E span \in [1..k -> GroupSpans] :
              /\ \A i \in 1..(k - 1) : span[i][1] <= span[i + 1][1]
              /\ args = [text_blocks |->
                           [i \in 1..k |-> Block(72, span[i][1], 300, span[i][2], Tag(i))]]
    /\ result = NoResult
    /\ page_num = 0
    /\ all_page_blocks = <<>>

GroupIntoContentBlocks ==
    /\ pc = "call"
    /\ result' = [fn |-> "_group_into_content_blocks",
                  value |-> _group_into_content_blocks(args.text_blocks)]
    /\ pc' = "return"
    /\ UNCHANGED <<args, page_num, all_page_blocks>>

NextGroup == GroupIntoContentBlocks

SpecGroup == InitGroup /\ [][NextGroup]_vars

\* The band of the blocks lo..hi of s: <<top, bottom>>.
Band(s, lo, hi) ==
    <<SetMin({s[i].y0 : i \in lo..hi}), SetMax({s[i].y1 : i \in lo..hi})>>

\* Block i of s joins the band of the blocks lo..(i - 1).
Joins(s, lo, i) ==
    LET band == Band(s, lo, i - 1)
    IN  \/ s[i].y0 - band[1] \in -50..50
        \/ s[i].y1 - band[2] \in -50..50

\* starts is the set of positions of s at which a band starts: the first block,
\* and every block that does not join the band open before it.
IsBanding(s, starts) ==
    /\ (s # <<>>) => 1 \in starts
    /\ \A i \in 2..Len(s) :
          LET lo == SetMax({j \in starts : j < i})
          IN  (i \in starts) <=> ~Joins(s, lo, i)

\* The texts of the blocks lo..hi of s, joined by single spaces.
SpacedTexts(s, lo, hi) ==
    [n \in 1..(2 * (hi - lo) + 1) |->
        IF n % 2 = 1 THEN s[lo + (n - 1) \div 2].text[1] ELSE " "]

\* C20: a block joins the band iff its y0 is within 50 of the band's top or its y1
\* within 50 of the band's bottom, joining widens the band to the union, a block
\* that does not join closes the band; every band becomes one block from x0=50 to
\* x1=700 over the band's vertical span with its members' texts in order; there
\* are no more blocks than before and every text is in exactly one of them.
C20_RegionGrouping ==
    Returned("_group_into_content_blocks") =>
        LET in == args.text_blocks
            out == result.value
        IN  /\ Len(out) <= Len(in)
            /\ \E starts \in SUBSET (1..Len(in)) :
                  /\ IsBanding(in, starts)
                  /\ Len(out) = Cardinality(starts)
                  /\ \A lo \in starts :
                        LET hi == SetMin({j - 1 : j \in {m \in starts : m > lo}}
                                         \cup {Len(in)})
                            k == Cardinality({j \in starts : j <= lo})
                            band == Band(in, lo, hi)
                        IN  out[k] = Block(50, band[1], 700, band[2],
                                           SpacedTexts(in, lo, hi))
            /\ \A i \in 1..Len(in) :
                  Cardinality({k \in 1..Len(out) :
                                  \E n \in 1..Len(out[k].text) :
                                      out[k].text[n] = in[i].text[1]}) = 1

\* the second block joins the first by its bottom alone, the third starts a new
\* band
C20_Witness ==
    /\ Returned("_group_into_content_blocks")
    /\ Len(args.text_blocks) = 3
    /\ args.text_blocks[1].y0 = 0 /\ args.text_blocks[1].y1 = 200
    /\ args.text_blocks[2].y0 = 51 /\ args.text_blocks[2].y1 = 250
    /\ args.text_blocks[3].y0 = 120
    /\ result.value = <<Block(50, 0, 700, 250, <<"p", " ", "q">>),
                        Block(50, 120, 700, 140, <<"r">>)>>

(***************************************************************************)
(* Calls of normalize_and_group_text_blocks on blocks of one region whose  *)
(* texts end in, start with or hold a hyphen.                              *)
(***************************************************************************)
\* <<y0, y1>>
AcrossSpans == {<<0, 20>>, <<25, 45>>, <<200, 220>>}

AcrossTexts ==
    { <<"H", "e", "l", "l", "o", "-">>, <<"w", "o", "r", "l", "d">>,
      <<"w", "o", "r", "-", "\n", "l", "d">>, <<"-", "\n", "x">> }

InitAcross ==
    /\ pc = "call"
    /\ \E k \in 0..MaxBlocks :
          \E span \in [1..k -> AcrossSpans], txt \in [1..k -> AcrossTexts],
             dehyphenate \in BOOLEAN :
              args = [text_blocks |->
                        [i \in 1..k |-> Block(0, span[i][1], 100, span[i][2], txt[i])],
                      dehyphenate |-> dehyphenate]
    /\ result = NoResult
    /\ page_num = 0
    /\ all_page_blocks = <<>>

SpecAcross == InitAcross /\ [][NextNormalize]_vars

\* The hyphens of the texts of the blocks 1..i of bs.
RECURSIVE HyphenTotal(_, _)
HyphenTotal(bs, i) ==
    IF i = 0 THEN 0 ELSE HyphenCount(bs[i].text) + HyphenTotal(bs, i - 1)

\* The hyphens of the texts of the blocks 1..i of bs that do not stand in a line
\* break inside their own text.
RECURSIVE HyphensOutsideBreaks(_, _)
HyphensOutsideBreaks(bs, i) ==
    IF i = 0 THEN 0
    ELSE HyphenCount(bs[i].text) - BreakCount(bs[i].text) + HyphensOutsideBreaks(bs, i - 1)

\* C21: the blocks (0,0,100,20,"Hello-") and (0,25,100,45,"world") normalized with
\* dehyphenate=True give one block that spans 0..45 and whose text still holds the
\* hyphen; in general the only hyphens the normalizer removes are those of line
\* breaks inside one block's text.
C21_NoCrossBlockDehyphenation ==
    Returned("normalize_and_group_text_blocks") =>
        /\ HyphenTotal(result.value, Len(result.value)) =
              IF args.dehyphenate
              THEN HyphensOutsideBreaks(args.text_blocks, Len(args.text_blocks))
              ELSE HyphenTotal(args.text_blocks, Len(args.text_blocks))
        /\ /\ args.dehyphenate
           /\ args.text_blocks = <<Block(0, 0, 100, 20, <<"H", "e", "l", "l", "o", "-">>),
                                   Block(0, 25, 100, 45, <<"w", "o", "r", "l", "d">>)>>
           => /\ Len(result.value) = 1
              /\ result.value[1].y0 = 0
              /\ result.value[1].y1 = 45
              /\ HyphenCount(result.value[1].text) = 1
              /\ SubSeq(result.value[1].text, 1, 6) = <<"H", "e", "l", "l", "o", "-">>

C21_Witness ==
    /\ Returned("normalize_and_group_text_blocks")
    /\ args.dehyphenate
    /\ args.text_blocks = <<Block(0, 0, 100, 20, <<"H", "e", "l", "l", "o", "-">>),
                            Block(0, 25, 100, 45, <<"w", "o", "r", "l", "d">>)>>
    /\ result.value = <<Block(50, 0, 700, 45,
                              <<"H", "e", "l", "l", "o", "-", " ", "w", "o", "r", "l", "d">>)>>

(***************************************************************************)
(* models.py: validate_text_block.  A block is a tuple of fields; a field  *)
(* is a number, a string or None: [kind, num, text].                       *)
(***************************************************************************)
Number(n) == [kind |-> "number", num |-> n, text |-> <<>>]

Str(t) == [kind |-> "str", num |-> 0, text |-> t]

None == [kind |-> "None", num |-> 0, text |-> <<>>]

\* isinstance(coord, (int, float))
IsNumber(field) == field.kind = "number"

\* Mutant of validate_text_block: a rectangle without width or height passes.
Mutant_validate_text_block_zero_size(block) ==
    IF Len(block) # 5 THEN FALSE
    ELSE IF ~(\A i \in 1..4 : IsNumber(block[i])) THEN FALSE
    ELSE IF block[3].num < block[1].num \/ block[4].num < block[2].num THEN FALSE
    ELSE IF block[5].kind # "str" \/ strip(block[5].text) = <<>> THEN FALSE
    ELSE TRUE

validate_text_block(block) ==
    IF Len(block) # 5 THEN FALSE
    ELSE IF ~(\A i \in 1..4 : IsNumber(block[i])) THEN FALSE
    ELSE IF block[3].num <= block[1].num \/ block[4].num <= block[2].num THEN FALSE
    ELSE IF block[5].kind # "str" \/ strip(block[5].text) = <<>> THEN FALSE
    ELSE TRUE

(***************************************************************************)
(* Calls of validate_text_block on tuples of four, five and six fields.    *)
(***************************************************************************)
CoordinateFields == {Number(10), Number(20), Number(100), Str(<<"1", "0">>), None}

TextFields ==
    { Str(<<"S", "a", "m", "p", "l", "e">>), Str(<<>>), Str(<<" ", " ", " ">>),
      Str(<<"\n", "\t">>), Str(<<" ", "a", "\n">>), Number(5), None }

FiveTuples ==
    { <<x0, y0, x1, y1, text>> :
        x0 \in CoordinateFields, y0 \in CoordinateFields, x1 \in CoordinateFields,
        y1 \in CoordinateFields, text \in TextFields }

OtherTuples ==
    { <<>>,
      <<Number(10), Number(20), Number(100), Str(<<"S", "a", "m", "p", "l", "e">>)>>,
      <<Number(10), Number(20), Number(100), Number(50)>>,
      <<Number(10), Number(20), Number(100), Number(50),
        Str(<<"S", "a", "m", "p", "l", "e">>), Str(<<"x">>)>> }

InitValidate ==
    /\ pc = "call"
    /\ \E block \in FiveTuples \cup OtherTuples : args = [block |-> block]
    /\ result = NoResult
    /\ page_num = 0
    /\ all_page_blocks = <<>>

ValidateTextBlock ==
    /\ pc = "call"
    /\ result' = [fn |-> "validate_text_block", value |-> validate_text_block(args.block)]
    /\ pc' = "return"
    /\ UNCHANGED <<args, page_num, all_page_blocks>>

NextValidate == ValidateTextBlock

SpecValidate == InitValidate /\ [][NextValidate]_vars

\* C22: validate_text_block is true iff the block has five fields, its four
\* coordinates are numbers with x1 > x0 and y1 > y0, and its text is a string with
\* a character that is not whitespace; every other block gives false.
C22_ValidBlock ==
    Returned("validate_text_block") =>
        LET b == args.block
        IN  result.value =
               /\ Len(b) = 5
               /\ \A i \in 1..4 : b[i].kind = "number"
               /\ b[3].num > b[1].num
               /\ b[4].num > b[2].num
               /\ b[5].kind = "str"
               /\ \E i \in 1..Len(b[5].text) : b[5].text[i] \notin Whitespace

\* a block of no width is turned away although its text is fine
C22_Witness ==
    /\ Returned("validate_text_block")
    /\ Len(args.block) = 5
    /\ \A i \in 1..4 : args.block[i].kind = "number"
    /\ args.block[3].num = args.block[1].num
    /\ args.block[4].num > args.block[2].num
    /\ args.block[5] = Str(<<"S", "a", "m", "p", "l", "e">>)
    /\ result.value = FALSE

(***************************************************************************)
(* Calls of _blocks_overlap on two rectangles, among them rectangles of no *)
(* width, of no height and with x1 < x0.                                   *)
(***************************************************************************)
\* <<x0, x1>>
OverlapXs == (0..3) \X (0..3)

\* <<y0, y1>>
OverlapYs == {<<0, 2>>, <<1, 3>>, <<0, 4>>, <<1, 1>>}

OverlapThresholds ==
    {[num |-> 0, den |-> 1], [num |-> 1, den |-> 2], [num |-> 1, den |-> 1],
     [num |-> 3, den |-> 2]}

InitOverlap ==
    /\ pc = "call"
    /\ \E h1 \in OverlapXs, v1 \in OverlapYs, h2 \in OverlapXs, v2 \in OverlapYs,
          thr \in OverlapThresholds :
          args = [block1 |-> Block(h1[1], v1[1], h1[2], v1[2], Tag(1)),
                  block2 |-> Block(h2[1], v2[1], h2[2], v2[2], Tag(2)),
                  threshold |-> thr]
    /\ result = NoResult
    /\ page_num = 0
    /\ all_page_blocks = <<>>

BlocksOverlap ==
    /\ pc = "call"
    /\ result' = [fn |-> "_blocks_overlap",
                  value |-> _blocks_overlap(args.block1, args.block2, args.threshold)]
    /\ pc' = "return"
    /\ UNCHANGED <<args, page_num, all_page_blocks>>

NextOverlap == BlocksOverlap

SpecOverlap == InitOverlap /\ [][NextOverlap]_vars

\* Width and height of the intersection of two rectangles (not cut off at 0).
IntersectionWidth(a, b) == Min2(a.x1, b.x1) - Max2(a.x0, b.x0)

IntersectionHeight(a, b) == Min2(a.y1, b.y1) - Max2(a.y0, b.y0)

\* C23: _blocks_overlap(b1, b2, t) is true iff the intersection of the rectangles
\* has positive width and height, the smaller area is not zero and
\* intersection area / smaller area >= t; a block of zero area overlaps nothing.
C23_OverlapPredicate ==
    Returned("_blocks_overlap") =>
        LET a == args.block1
            b == args.block2
            w == IntersectionWidth(a, b)
            h == IntersectionHeight(a, b)
            smaller == Min2(Area(a), Area(b))
        IN  /\ result.value =
                 /\ w > 0
                 /\ h > 0
                 /\ smaller # 0
                 /\ w * h * args.threshold.den >= args.threshold.num * smaller
            /\ (Area(a) = 0 \/ Area(b) = 0) => result.value = FALSE
            \* where the division is reached the divisor is a positive area
            /\ (w > 0 /\ h > 0) => smaller > 0

\* a rectangle half covered by a larger one overlaps it at threshold 1/2
C23_Witness ==
    /\ Returned("_blocks_overlap")
    /\ args.block1 = Block(0, 0, 2, 2, Tag(1))
    /\ args.block2 = Block(1, 0, 3, 4, Tag(2))
    /\ args.threshold = [num |-> 1, den |-> 2]
    /\ result.value = TRUE

(***************************************************************************)
(* The blocks merge_overlapping_blocks puts together.  The input texts are *)
(* the letters Tag(i), so the members of an output block are read off its  *)
(* text.                                                                   *)
(***************************************************************************)
\* The indices of the input blocks whose letter stands in the text of b.
MergeMembers(b) ==
    {i \in 1..Len(args.text_blocks) :
        \E p \in 1..Len(b.text) : <<b.text[p]>> = args.text_blocks[i].text}

\* The text of the members i..n of ms, put together one after the other in the
\* order of their indices: (text, top) is what the earlier members have given.
RECURSIVE MergedText(_, _, _, _)
MergedText(ms, i, text, top) ==
    IF i > Len(args.text_blocks) THEN text
    ELSE IF i \notin ms THEN MergedText(ms, i + 1, text, top)
    ELSE LET b == args.text_blocks[i]
         IN  MergedText(ms, i + 1,
                        IF top <= b.y0 THEN text \o <<"\n">> \o b.text
                                       ELSE b.text \o <<"\n">> \o text,
                        Min2(top, b.y0))

\* C24: a block merged by merge_overlapping_blocks has the bounding box of its
\* members (min x0, min y0, max x1, max y1) and their texts joined by single
\* newlines, at each merge the text of the block with the smaller y0 first and the
\* earlier block first on a tie; a list of fewer than two blocks comes back as it is.
C24_MergedBlock ==
    Returned("merge_overlapping_blocks") =>
        /\ Len(args.text_blocks) < 2 => result.value = args.text_blocks
        /\ \A k \in 1..Len(result.value) :
              LET b == result.value[k]
                  ms == MergeMembers(b)
                  first == SetMin(ms)
              IN  /\ ms # {}
                  /\ b.x0 = SetMin({args.text_blocks[i].x0 : i \in ms})
                  /\ b.y0 = SetMin({args.text_blocks[i].y0 : i \in ms})
                  /\ b.x1 = SetMax({args.text_blocks[i].x1 : i \in ms})
                  /\ b.y1 = SetMax({args.text_blocks[i].y1 : i \in ms})
                  /\ b.text = MergedText(ms, first + 1, args.text_blocks[first].text,
                                         args.text_blocks[first].y0)

\* a later block with the smaller top edge is merged in front, one with the same
\* top edge behind
C24_Witness ==
    /\ Returned("merge_overlapping_blocks")
    /\ Len(args.text_blocks) = 3
    /\ args.text_blocks[1].y0 = 1
    /\ args.text_blocks[2].y0 = 0
    /\ args.text_blocks[3].y0 = 0
    /\ Len(result.value) = 1
    /\ result.value[1].text = <<"q", "\n", "p", "\n", "r">>
    /\ result.value[1].y0 = 0
    /\ result.value[1].y1 = 3

(***************************************************************************)
(* layout.py: optimize_text_layout                                         *)
(***************************************************************************)
_blocks_overlap_emu(block1, block2) ==
    IF block1.x1 <= block2.x0 \/ block2.x1 <= block1.x0 THEN FALSE
    ELSE IF block1.y1 <= block2.y0 \/ block2.y1 <= block1.y0 THEN FALSE
    ELSE TRUE

\* Mutant of _resolve_overlap_emu: a block that fits neither below nor to the
\* right is moved to the right all the same.
Mutant_resolve_overlap_emu_off_canvas(current_block, existing_block) ==
    LET width == current_block.x1 - current_block.x0
        height == current_block.y1 - current_block.y0
        new_y0 == existing_block.y1 + 18288
        new_y1 == new_y0 + height
        new_x0 == existing_block.x1 + 18288
        new_x1 == new_x0 + width
    IN  IF new_y1 > 6858000
        THEN Block(new_x0, current_block.y0, new_x1, current_block.y1,
                   current_block.text)
        ELSE Block(current_block.x0, new_y0, current_block.x1, new_y1,
                   current_block.text)

_resolve_overlap_emu(current_block, existing_block) ==
    LET width == current_block.x1 - current_block.x0
        height == current_block.y1 - current_block.y0
        new_y0 == existing_block.y1 + 18288
        new_y1 == new_y0 + height
        new_x0 == existing_block.x1 + 18288
        new_x1 == new_x0 + width
    IN  IF new_y1 > 6858000
        THEN IF new_x1 > 12192000
             THEN current_block
             ELSE Block(new_x0, current_block.y0, new_x1, current_block.y1,
                        current_block.text)
        ELSE Block(current_block.x0, new_y0, current_block.x1, new_y1,
                   current_block.text)

\* The inner loop: adjusted_block against the blocks placed so far, in order.
RECURSIVE AdjustLoop(_, _)
AdjustLoop(adjusted_block, prev_blocks) ==
    IF prev_blocks = <<>> THEN adjusted_block
    ELSE AdjustLoop(IF _blocks_overlap_emu(adjusted_block, Head(prev_blocks))
                    THEN _resolve_overlap_emu(adjusted_block, Head(prev_blocks))
                    ELSE adjusted_block,
                    Tail(prev_blocks))

\* The outer loop over sorted_blocks.
RECURSIVE OptimizeLoop(_, _)
OptimizeLoop(sorted_blocks, optimized_blocks) ==
    IF sorted_blocks = <<>> THEN optimized_blocks
    ELSE OptimizeLoop(Tail(sorted_blocks),
                      Append(optimized_blocks,
                             AdjustLoop(Head(sorted_blocks), optimized_blocks)))

\* sorted(text_blocks, key=(y0, x0)) is the stable sort of _sort_by_reading_order
optimize_text_layout(text_blocks) ==
    IF Len(text_blocks) < 2 THEN text_blocks
    ELSE OptimizeLoop(StableSort(text_blocks), <<>>)

(***************************************************************************)
(* Calls of optimize_text_layout on blocks near the top, near the bottom   *)
(* and at the right edge of the 12192000 x 6858000 canvas.                 *)
(***************************************************************************)
LayoutXs == {0, 100000, 12000000}

LayoutYs == {0, 6000000}

LayoutHeights == {100000, 1000000}

InitLayout ==
    /\ pc = "call"
    /\ \E k \in 0..MaxBlocks :
          \E x \in [1..k -> LayoutXs], y \in [1..k -> LayoutYs],
             h \in [1..k -> LayoutHeights] :
              args = [text_blocks |->
                        [i \in 1..k |-> Block(x[i], y[i], x[i] + 200000, y[i] + h[i],
                                              Tag(i))]]
    /\ result = NoResult
    /\ page_num = 0
    /\ all_page_blocks = <<>>

OptimizeTextLayout ==
    /\ pc = "call"
    /\ result' = [fn |-> "optimize_text_layout",
                  value |-> optimize_text_layout(args.text_blocks)]
    /\ pc' = "return"
    /\ UNCHANGED <<args, page_num, all_page_blocks>>

NextLayout == OptimizeTextLayout

SpecLayout == InitLayout /\ [][NextLayout]_vars

\* What one placed block does to a block that comes after it: nothing when the
\* rectangles do not intersect; otherwise below, else to the right, else nothing.
MovedPast(b, placed) ==
    IF ~(IntersectionWidth(b, placed) > 0 /\ IntersectionHeight(b, placed) > 0)
    THEN b
    ELSE IF placed.y1 + 18288 + (b.y1 - b.y0) <= 6858000
    THEN [b EXCEPT !.y0 = placed.y1 + 18288,
                   !.y1 = placed.y1 + 18288 + (b.y1 - b.y0)]
    ELSE IF placed.x1 + 18288 + (b.x1 - b.x0) <= 12192000
    THEN [b EXCEPT !.x0 = placed.x1 + 18288,
                   !.x1 = placed.x1 + 18288 + (b.x1 - b.x0)]
    ELSE b

\* b after the placed blocks out[j], ..., out[k - 1] have acted on it in turn
RECURSIVE MovedPastAll(_, _, _, _)
MovedPastAll(b, out, j, k) ==
    IF j >= k THEN b ELSE MovedPastAll(MovedPast(b, out[j]), out, j + 1, k)

\* C25: optimize_text_layout returns as many blocks as it was given, each with the
\* text, width and height it had; a block that intersects a placed block starts
\* 18288 EMU below it at the same x, or, if its bottom would pass 6858000, 18288 EMU
\* to the right of it at the same y, or, if its right edge would pass 12192000,
\* stays where it is.
C25_LayoutKeepsBlocks ==
    Returned("optimize_text_layout") =>
        LET in == args.text_blocks
            out == result.value
            order == IF Len(in) < 2 THEN in ELSE StableSort(in)
        IN  /\ Len(out) = Len(in)
            /\ \A i \in 1..Len(in) :
                  \E k \in 1..Len(out) :
                      /\ out[k].text = in[i].text
                      /\ out[k].x1 - out[k].x0 = in[i].x1 - in[i].x0
                      /\ out[k].y1 - out[k].y0 = in[i].y1 - in[i].y0
            /\ Len(in) >= 2 =>
                  \A k \in 1..Len(out) : out[k] = MovedPastAll(order[k], out, 1, k)

\* one block moved below, one moved to the right, one left where it was
C25_Witness ==
    /\ Returned("optimize_text_layout")
    /\ \E k \in 1..Len(result.value), i \in 1..Len(args.text_blocks) :
          /\ result.value[k].text = args.text_blocks[i].text
          /\ result.value[k].x0 = args.text_blocks[i].x0
          /\ result.value[k].y0 > args.text_blocks[i].y0
    /\ \E k \in 1..Len(result.value), i \in 1..Len(args.text_blocks) :
          /\ result.value[k].text = args.text_blocks[i].text
          /\ result.value[k].y0 = args.text_blocks[i].y0
          /\ result.value[k].x0 > args.text_blocks[i].x0

(***************************************************************************)
(* The page loop of _pdf_to_pptx_with_ocr run on a second document.        *)
(***************************************************************************)
\* The documents with as many pages as the one being converted.
OtherDocuments == [1..Len(args.doc) -> Pages]

\* What the loop appends for page k of the document doc.
PageOutput(doc, k) ==
    transformed_blocks(doc[k], args.dehyphenate, doc[1].width, doc[1].height,
                       calculate_optimal_slide_size(doc[1].width, doc[1].height))

\* C26: the blocks emitted for page k depend on page k (its blocks and its size)
\* and on the slide configuration only: a document with the same page k and the
\* same slide configuration gives the same blocks for page k, whatever its other
\* pages are.
C26_PageIndependence ==
    \A k \in 1..Len(all_page_blocks) :
        \A other \in OtherDocuments :
            (/\ other[k] = args.doc[k]
             /\ calculate_optimal_slide_size(other[1].width, other[1].height)
                    = slide_config)
                => PageOutput(other, k) = all_page_blocks[k]

(***************************************************************************)
(* converter.py: _extract_page_text_blocks, step by step.  The locals      *)
(* native_blocks and the list of the extractor calls made so far are kept  *)
(* in result until the function returns.                                   *)
(***************************************************************************)
\* Mutant of OcrFallback: a failing OCR leaves the page without blocks.
Mutant_OcrFallback_empty(page, native_blocks) ==
    IF page.ocr.raises THEN <<>> ELSE page.ocr.blocks

\* try: return ocr_page_lines(page) except Exception: return native_blocks
OcrFallback(page, native_blocks) ==
    IF page.ocr.raises THEN native_blocks ELSE page.ocr.blocks

NativeOutcomes ==
    { Found(<<>>),
      Found(<<Block(72, 100, 540, 112, Line(5))>>),
      Found(<<Block(72, 100, 540, 112, Line(MINIMUM_TEXT_THRESHOLD - 1))>>),
      Found(<<Block(72, 100, 540, 112, Line(MINIMUM_TEXT_THRESHOLD))>>),
      Found(<<Block(72, 100, 540, 112, Line(12)), Block(72, 200, 540, 212, Line(12))>>),
      Found(<<Block(72, 100, 540, 112, Line(12)), Block(72, 200, 540, 212, Line(7))>>),
      Raises,
      RaisesAfter(<<Block(72, 100, 540, 300, Line(24))>>) }

OcrOutcomes ==
    { Found(<<>>),
      Found(<<Block(60, 60, 500, 75, Line(8))>>),
      Found(<<Block(60, 60, 500, 75, Line(8)), Block(60, 300, 500, 420, Line(30))>>),
      Raises,
      RaisesAfter(<<Block(60, 60, 500, 75, Line(8))>>) }

InitExtract ==
    /\ pc = "call"
    /\ \E native \in NativeOutcomes, ocr \in OcrOutcomes :
          args = [page |-> [width |-> 612, height |-> 792, native |-> native,
                            ocr |-> ocr]]
    /\ result = NoResult
    /\ page_num = 0
    /\ all_page_blocks = <<>>

\* native_blocks = extract_text_blocks_pymupdf(page)
NativeExtraction ==
    /\ pc = "call"
    /\ result' = [fn |-> "extract_text_blocks_pymupdf",
                  native_blocks |-> extract_text_blocks_pymupdf(args.page),
                  calls |-> <<"extract_text_blocks_pymupdf">>]
    /\ pc' = "gate"
    /\ UNCHANGED <<args, page_num, all_page_blocks>>

\* if has_sufficient_text(native_blocks): return native_blocks
SufficiencyGate ==
    /\ pc = "gate"
    /\ IF has_sufficient_text(result.native_blocks)
       THEN /\ result' = [fn |-> "_extract_page_text_blocks",
                          value |-> result.native_blocks,
                          native_blocks |-> result.native_blocks,
                          calls |-> result.calls]
            /\ pc' = "return"
       ELSE /\ pc' = "ocr"
            /\ UNCHANGED result
    /\ UNCHANGED <<args, page_num, all_page_blocks>>

\* ocr_page_lines(page), and the handler around it
OcrPageLines ==
    /\ pc = "ocr"
    /\ result' = [fn |-> "_extract_page_text_blocks",
                  value |-> OcrFallback(args.page, result.native_blocks),
                  native_blocks |-> result.native_blocks,
                  calls |-> Append(result.calls, "ocr_page_lines")]
    /\ pc' = "return"
    /\ UNCHANGED <<args, page_num, all_page_blocks>>

NextExtract == NativeExtraction \/ SufficiencyGate \/ OcrPageLines

SpecExtract == InitExtract /\ [][NextExtract]_vars

\* C27: the native extractor runs first; if its blocks are sufficient they are
\* returned and OCR is not called; if not, OCR is called once and its blocks are
\* returned, or the native blocks when OCR raises; no extractor is called twice.
C27_ExtractorSelection ==
    /\ pc \in {"gate", "ocr"} => result.calls = <<"extract_text_blocks_pymupdf">>
    /\ Returned("_extract_page_text_blocks") =>
          LET native == IF args.page.native.raises THEN <<>>
                        ELSE args.page.native.blocks
          IN  /\ result.native_blocks = native
              /\ IF has_sufficient_text(native)
                 THEN /\ result.calls = <<"extract_text_blocks_pymupdf">>
                      /\ result.value = native
                 ELSE /\ result.calls = <<"extract_text_blocks_pymupdf", "ocr_page_lines">>
                      /\ ~args.page.ocr.raises => result.value = args.page.ocr.blocks
                      /\ args.page.ocr.raises => result.value = native
              /\ result.value = _extract_page_text_blocks(args.page)

\* too little native text, OCR called once and failing: the native block is returned
C27_Witness ==
    /\ Returned("_extract_page_text_blocks")
    /\ args.page.native = Found(<<Block(72, 100, 540, 112, Line(5))>>)
    /\ args.page.ocr.raises
    /\ result.calls = <<"extract_text_blocks_pymupdf", "ocr_page_lines">>
    /\ result.value = <<Block(72, 100, 540, 112, Line(5))>>

(***************************************************************************)
(* pptx_generator.py: _create_natural_slide on the "Title and Content"     *)
(* layout, whose slides have two shapes: the title and the body            *)
(* placeholder.  A slide is [title, body]: the text of the title shape and *)
(* the paragraphs put into the body placeholder.                           *)
(***************************************************************************)
\* the stripped texts of the blocks, the empty ones left out
RECURSIVE content_parts(_)
content_parts(sorted_blocks) ==
    IF sorted_blocks = <<>> THEN <<>>
    ELSE LET text == strip(Head(sorted_blocks).text)
         IN  IF text # <<>> THEN <<text>> \o content_parts(Tail(sorted_blocks))
             ELSE content_parts(Tail(sorted_blocks))

_extract_natural_content(text_blocks) ==
    IF text_blocks = <<>> THEN <<>>
    ELSE _intelligent_text_combination(content_parts(StableSort(text_blocks)))

\* content_text.split('\n\n'): (acc is the piece being read)
RECURSIVE split_paragraphs(_, _)
split_paragraphs(t, acc) ==
    IF t = <<>> THEN <<acc>>
    ELSE IF Len(t) >= 2 /\ t[1] = "\n" /\ t[2] = "\n"
    THEN <<acc>> \o split_paragraphs(SubSeq(t, 3, Len(t)), <<>>)
    ELSE split_paragraphs(Tail(t), Append(acc, Head(t)))

\* The texts of the paragraphs _add_natural_content writes: the pieces between
\* blank lines, stripped, the empty ones left out.
RECURSIVE stripped_paragraphs(_)
stripped_paragraphs(paragraphs) ==
    IF paragraphs = <<>> THEN <<>>
    ELSE LET paragraph_text == strip(Head(paragraphs))
         IN  IF paragraph_text = <<>> THEN stripped_paragraphs(Tail(paragraphs))
             ELSE <<paragraph_text>> \o stripped_paragraphs(Tail(paragraphs))

_add_natural_content(content_text) ==
    stripped_paragraphs(split_paragraphs(content_text, <<>>))

BlankSlide == [title |-> <<>>, body |-> <<>>]

_create_natural_slide(text_blocks) ==
    IF text_blocks = <<>> THEN BlankSlide
    ELSE LET content_text == _extract_natural_content(text_blocks)
         IN  IF strip(content_text) = <<>> THEN BlankSlide
             ELSE LET tc == _extract_title_and_content(content_text)
                      title == tc[1]
                      body_content == tc[2]
                  IN  [title |-> title,
                       body |-> IF strip(body_content) # <<>>
                                THEN _add_natural_content(body_content)
                                ELSE _add_natural_content(content_text)]

(***************************************************************************)
(* Calls of _create_natural_slide on the blocks of one page.               *)
(***************************************************************************)
SlideTexts ==
    { <<"U", "P">>, <<"I", "n", "t", "r", "o">>, <<"o", "k", ".">>,
      <<"U", "P", "\n", "o", "k", ".">>, <<" ">>,
      <<"i", "t", " ", "i", "s", ".", "\n", "\n", "e", "n", "d", ".">> }

SlideTops == {0, 914400}

InitSlide ==
    /\ pc = "call"
    /\ \E k \in 0..MaxBlocks :
          \E txt \in [1..k -> SlideTexts], top \in [1..k -> SlideTops] :
              args = [text_blocks |->
                        [i \in 1..k |-> Block(457200, top[i], 8686800, top[i] + 457200,
                                              txt[i])]]
    /\ result = NoResult
    /\ page_num = 0
    /\ all_page_blocks = <<>>

CreateNaturalSlide ==
    /\ pc = "call"
    /\ result' = [fn |-> "_create_natural_slide",
                  value |-> _create_natural_slide(args.text_blocks)]
    /\ pc' = "return"
    /\ UNCHANGED <<args, page_num, all_page_blocks>>

NextSlide == CreateNaturalSlide

SpecSlide == InitSlide /\ [][NextSlide]_vars

\* C28: on a slide with a title, the title shape holds the first line of the
\* page's text and the body placeholder holds what stands behind that line, without
\* the title line; when the text is the title line alone the body stays empty.
C28_TitleNotInBody ==
    Returned("_create_natural_slide") =>
        LET content_text == _extract_natural_content(args.text_blocks)
        IN  result.value.title # <<>> =>
               /\ result.value.title = FirstLine(content_text)
               /\ result.value.body = _add_natural_content(BehindFirstLine(content_text))

(***************************************************************************)
(* Calls of _normalize_text on a text, and of                              *)
(* normalize_and_group_text_blocks on a page that holds this text in one   *)
(* block and a blank text in another.                                      *)
(***************************************************************************)
InitCleanup ==
    /\ pc = "call"
    /\ \E text \in TextInputs, dehyphenate \in BOOLEAN :
          args = [text |-> text, dehyphenate |-> dehyphenate,
                  text_blocks |-> <<Block(72, 100, 540, 120, text),
                                    Block(72, 300, 540, 320, <<" ", "\n">>)>>]
    /\ result = NoResult
    /\ page_num = 0
    /\ all_page_blocks = <<>>

NextCleanup == NormalizeText \/ NormalizeAndGroup

SpecCleanup == InitCleanup /\ [][NextCleanup]_vars

\* t is clean: no two blanks in a row, no blank next to a newline, no three
\* newlines in a row, no whitespace at either end.
IsCleanText(t) ==
    /\ \A i \in 1..(Len(t) - 1) :
          /\ ~(t[i] \in {" ", "\t"} /\ t[i + 1] \in {" ", "\t"})
          /\ ~(t[i] \in {" ", "\t"} /\ t[i + 1] = "\n")
          /\ ~(t[i] = "\n" /\ t[i + 1] \in {" ", "\t"})
    /\ \A i \in 1..(Len(t) - 2) : ~(t[i] = "\n" /\ t[i + 1] = "\n" /\ t[i + 2] = "\n")
    /\ t # <<>> => t[1] \notin {" ", "\t", "\n"} /\ t[Len(t)] \notin {" ", "\t", "\n"}

\* C29: the text _normalize_text returns has no two consecutive spaces or tabs, no
\* space or tab next to a newline, no three newlines in a row and no whitespace at
\* its ends; normalize_and_group_text_blocks drops the blocks whose cleaned text is
\* empty, so that none of the blocks it returns has an empty text.
C29_CleanText ==
    /\ Returned("_normalize_text") => IsCleanText(result.value)
    /\ Returned("normalize_and_group_text_blocks") =>
          /\ \A k \in 1..Len(result.value) :
                \E i \in 1..Len(result.value[k].text) :
                    result.value[k].text[i] \notin {" ", "\t", "\n"}
          /\ Len(result.value) =
                IF \E i \in 1..Len(args.text) : args.text[i] \notin {" ", "\t", "\n"}
                THEN 1 ELSE 0

\* blanks around a line break and in a row are gone, the text is kept
C29_Witness ==
    /\ Returned("_normalize_text")
    /\ args.text = <<"a", " ", "\t", "\n", "1">>
    /\ result.value = <<"a", "\n", "1">>

\* How often the letter of input block i stands in the text of b.
LetterCount(b, i) ==
    Cardinality({p \in 1..Len(b.text) : <<b.text[p]>> = args.text_blocks[i].text})

\* C30: merge_overlapping_blocks partitions its input: every input block is a
\* member of exactly one output block and its text stands there once; there are at
\* most as many output blocks as input blocks; the output blocks are in the order
\* of the input index of their first member.
C30_MergePartition ==
    Returned("merge_overlapping_blocks") =>
        LET in == args.text_blocks
            out == result.value
        IN  /\ Len(out) <= Len(in)
            /\ \A i \in 1..Len(in) :
                  \E k \in 1..Len(out) :
                      /\ LetterCount(out[k], i) = 1
                      /\ \A l \in 1..Len(out) : l # k => LetterCount(out[l], i) = 0
            /\ \A k \in 1..Len(out) : MergeMembers(out[k]) # {}
            /\ \A k, l \in 1..Len(out) :
                  k < l => SetMin(MergeMembers(out[k])) < SetMin(MergeMembers(out[l]))

\* blocks 1 and 3 are merged, block 2 stays alone and comes second although it
\* lies above the merged block
C30_Witness ==
    /\ Returned("merge_overlapping_blocks")
    /\ Len(args.text_blocks) = 3
    /\ Len(result.value) = 2
    /\ MergeMembers(result.value[1]) = {1, 3}
    /\ MergeMembers(result.value[2]) = {2}
    /\ result.value[2].y0 < result.value[1].y0

====
